---- MODULE Spec2Model ----
(***************************************************************************)
(* OpenComp kernel: the physical page allocator (memory.c), the component  *)
(* registry / round-robin scheduler (kernel.c), the PS/2 keyboard driver   *)
(* (keyboard.c), the PS/2 mouse driver (mouse.c) and the window tables of  *)
(* the desktops (gui_desktop.c, desktop.c).                                *)
(*                                                                         *)
(* The specifications share the variables:                                 *)
(*   SpecAlloc    the allocator API driven by arbitrary callers            *)
(*   Spec         kernel_main: registration, init phase and the tick loop, *)
(*                over every component table up to MaxComps entries        *)
(*   FairSpec     Spec with weak fairness on every step of kernel_main     *)
(*   SpecShapes   kernel_main over the tables of every shape of entry      *)
(*   SpecKbd      the keyboard ring: keyboard_tick and keyboard_get_key    *)
(*   SpecGui      the tick loop over the keyboard and the graphical        *)
(*                desktop; FairSpecGui adds weak fairness                  *)
(*   SpecWin      create_window of both desktops and desktop.c's           *)
(*                set_window_content driven by any caller                  *)
(*   SpecDesk     the tick loop over the keyboard and the text desktop     *)
(*   SpecConsumer kernel_main over the table of the end-to-end scenario    *)
(*   SpecInput    the tick loop over the keyboard and either desktop        *)
(*   SpecMouse    the mouse driver fed any byte stream, read by any caller *)
(***************************************************************************)
EXTENDS Integers, Sequences, FiniteSets, TLC

(***************************************************************************)
(* Bounds of the model.                                                    *)
(***************************************************************************)
\* memory.c:15 defines TOTAL_PAGES as 4096; the model scales the arena down.
TOTAL_PAGES == 3
\* longest component table (the .comps section) that is enumerated
MaxComps == 3
\* how far callers may drive free_pages above TOTAL_PAGES in SpecAlloc
MaxOverFree == 2
\* keyboard.c:14 defines KEY_BUFFER_SIZE as 64; the model scales the ring down.
KEY_BUFFER_SIZE == 3
\* gui_desktop.c:11 and desktop.c:13 define MAX_WINDOWS as 8; scaled down.
MAX_WINDOWS == 3
\* desktop.c:29 gives command_buffer 64 bytes; scaled down to the shortest
\* buffer that holds the longest command word and its terminating NUL
COMMAND_SIZE == 6
\* mouse.c clamps the pointer to 0..319 and 0..199 (a 320x200 screen); the
\* model scales the screen down
SCREEN_WIDTH == 4
SCREEN_HEIGHT == 3

(***************************************************************************)
(* Program constants.                                                      *)
(***************************************************************************)
PAGE_SIZE == 4096
base_address == 2097152
NULL == 0

\* uint64_t arithmetic wraps; the model keeps the wrap with a narrower word
\* (2^30 instead of 2^64) so that every intermediate value is a TLC integer.
WordModulus == 2^30

Min(a, b) == IF a <= b THEN a ELSE b

Pages == 0 .. (TOTAL_PAGES - 1)

\* address of page i (memory.c:39)
PageAddr(i) == base_address + i * PAGE_SIZE

PageAddrs == {PageAddr(i) : i \in Pages}

(***************************************************************************)
(* memory.c: the bitmap.  One bit per page; the packing of bit `page` into *)
(* byte page/8 at position page%8 is a bijection and is kept abstract:     *)
(* page_bitmap maps a page index to its bit.                               *)
(***************************************************************************)
set_page_used(bm, page) == [bm EXCEPT ![page] = 1]

set_page_free(bm, page) == [bm EXCEPT ![page] = 0]

is_page_used(bm, page) == bm[page] # 0

\* the scan of kalloc_page: first i in i..TOTAL_PAGES-1 whose bit is clear,
\* TOTAL_PAGES when the loop runs off the end
RECURSIVE ScanFrom(_, _)
ScanFrom(bm, i) ==
    IF i >= TOTAL_PAGES THEN TOTAL_PAGES
    ELSE IF ~is_page_used(bm, i) THEN i
    ELSE ScanFrom(bm, i + 1)

\* kalloc_page with the page still marked free after it is handed out
kalloc_page_NoMark(bm, fp, mem) ==
    LET i == ScanFrom(bm, 0) IN
    IF i < TOTAL_PAGES
    THEN [bitmap |-> bm,
          free_pages |-> (fp - 1) % WordModulus,
          mem |-> [mem EXCEPT ![i] = 0],
          ret |-> PageAddr(i)]
    ELSE [bitmap |-> bm, free_pages |-> fp, mem |-> mem, ret |-> NULL]

\* kalloc_page with the decrement of free_pages left out
kalloc_page_NoCount(bm, fp, mem) ==
    LET i == ScanFrom(bm, 0) IN
    IF i < TOTAL_PAGES
    THEN [bitmap |-> set_page_used(bm, i),
          free_pages |-> fp,
          mem |-> [mem EXCEPT ![i] = 0],
          ret |-> PageAddr(i)]
    ELSE [bitmap |-> bm, free_pages |-> fp, mem |-> mem, ret |-> NULL]

\* kalloc_page without the loop that zeroes the page
kalloc_page_NoZero(bm, fp, mem) ==
    LET i == ScanFrom(bm, 0) IN
    IF i < TOTAL_PAGES
    THEN [bitmap |-> set_page_used(bm, i),
          free_pages |-> (fp - 1) % WordModulus,
          mem |-> mem,
          ret |-> PageAddr(i)]
    ELSE [bitmap |-> bm, free_pages |-> fp, mem |-> mem, ret |-> NULL]

\* kalloc_page that counts a page out of free_pages also when it finds none
kalloc_page_CountOnFail(bm, fp, mem) ==
    LET i == ScanFrom(bm, 0) IN
    IF i < TOTAL_PAGES
    THEN [bitmap |-> set_page_used(bm, i),
          free_pages |-> (fp - 1) % WordModulus,
          mem |-> [mem EXCEPT ![i] = 0],
          ret |-> PageAddr(i)]
    ELSE [bitmap |-> bm, free_pages |-> (fp - 1) % WordModulus,
          mem |-> mem, ret |-> NULL]

\* kalloc_page: state after the call and the returned address
kalloc_page(bm, fp, mem) ==
    LET i == ScanFrom(bm, 0) IN
    IF i < TOTAL_PAGES
    THEN [bitmap |-> set_page_used(bm, i),
          free_pages |-> (fp - 1) % WordModulus,
          mem |-> [mem EXCEPT ![i] = 0],
          ret |-> PageAddr(i)]
    ELSE [bitmap |-> bm, free_pages |-> fp, mem |-> mem, ret |-> NULL]

\* index computed by kfree_page: unsigned subtraction, then division
FreeIndex(addr) == ((addr - base_address) % WordModulus) \div PAGE_SIZE

\* kfree_page that counts the page in and leaves its bit set
kfree_page_NoClear(bm, fp, addr) ==
    LET page == FreeIndex(addr) IN
    IF page < TOTAL_PAGES
    THEN [bitmap |-> bm, free_pages |-> (fp + 1) % WordModulus]
    ELSE [bitmap |-> bm, free_pages |-> fp]

\* kfree_page that clears the bit and leaves free_pages alone
kfree_page_NoCount(bm, fp, addr) ==
    LET page == FreeIndex(addr) IN
    IF page < TOTAL_PAGES
    THEN [bitmap |-> set_page_free(bm, page), free_pages |-> fp]
    ELSE [bitmap |-> bm, free_pages |-> fp]

\* kfree_page that counts every call, whatever the index
kfree_page_CountAlways(bm, fp, addr) ==
    LET page == FreeIndex(addr) IN
    IF page < TOTAL_PAGES
    THEN [bitmap |-> set_page_free(bm, page),
          free_pages |-> (fp + 1) % WordModulus]
    ELSE [bitmap |-> bm, free_pages |-> (fp + 1) % WordModulus]

\* kfree_page: state after the call
kfree_page(bm, fp, addr) ==
    LET page == FreeIndex(addr) IN
    IF page < TOTAL_PAGES
    THEN [bitmap |-> set_page_free(bm, page),
          free_pages |-> (fp + 1) % WordModulus]
    ELSE [bitmap |-> bm, free_pages |-> fp]

get_free_pages(fp) == fp

\* memory_init clears the bitmap and leaves free_pages as it is
memory_init(bm, fp) ==
    [bitmap |-> [i \in Pages |-> 0], free_pages |-> fp]

(***************************************************************************)
(* State.                                                                  *)
(***************************************************************************)
VARIABLES
    page_bitmap,   \* memory.c: page_bitmap, one bit per page
    free_pages,    \* memory.c: free_pages
    page_mem,      \* content of each page of the arena: 0 = every byte is
                   \* zero, 1 = the bytes are arbitrary (RAM at boot),
                   \* 2 = the bytes were written by an owner of the page
    call,          \* the allocator call made by the latest step; was is the
                   \* content of the returned page when kalloc_page was called
    held,          \* addresses returned by kalloc_page and not since passed
                   \* to kfree_page
    allocRun,      \* results of the kalloc_page calls made consecutively
                   \* since an all-Free state
    consumer_pages, \* the allocator-consumer component: the addresses its
                   \* init obtained, in order
    consumer_ticks, \* the allocator-consumer component: ticks it has counted
    table,         \* kernel.c: the component pointers __start_comps..__stop_comps
    pc,            \* position of kernel_main
    it,            \* register_components_and_init: loop index (1-based)
    p,             \* kernel_main_loop: index of the for loop (1-based)
    events,        \* lines the core wrote and inits it invoked, in order
    tickLog,       \* ticks invoked so far in the current pass, in order
    key_buffer,    \* keyboard.c: key_buffer, one character code per slot
    key_read_pos,  \* keyboard.c: key_read_pos
    key_write_pos, \* keyboard.c: key_write_pos
    unread,        \* the characters keyboard_tick stored that keyboard_get_key
                   \* has not returned yet, oldest first
    kcall,         \* the keyboard call made by the latest step
    windows,       \* gui_desktop.c / desktop.c: windows[], per slot the
                   \* active flag, the title and the content
    active_window, \* gui_desktop.c / desktop.c: active_window
    needs_redraw,  \* gui_desktop.c: needs_redraw
    gpc,           \* position of the graphical desktop's kernel
    tab_start,     \* handle_keyboard: the local start of the Tab loop
    wcall,         \* the create_window call made by the latest step
    command_buffer, \* desktop.c: command_buffer, one character code per byte
    command_len,   \* desktop.c: command_len
    layout,        \* desktop.c as linked: the object that lies where the
                   \* first store beyond the end of windows[] lands
    stray,         \* the arrays of desktop.c that have been indexed beyond
                   \* their end so far
    dcall,         \* what the text desktop did in its latest step; ret is
                   \* the result of create_window, was the number of active
                   \* windows before the step
    typing,        \* the scancodes of the word being typed that the
                   \* keyboard controller has not delivered yet
    mouse_x,       \* mouse.c: mouse_x
    mouse_y,       \* mouse.c: mouse_y
    mouse_buttons, \* mouse.c: mouse_buttons
    mouse_cycle,   \* mouse.c: mouse_cycle
    mouse_byte,    \* mouse.c: mouse_byte[3]
    mouse_float,   \* mouse.c with smoothing: mouse_x_float and mouse_y_float
                   \* as the whole numbers they are cut to, velocity_x and
                   \* velocity_y as v (0: both are 0.0, 1: the pointer is
                   \* moving); NoFloats in the driver without them
    mcall          \* the mouse call made by the latest step

consVars == <<consumer_pages, consumer_ticks>>

allocVars == <<page_bitmap, free_pages, page_mem, call, held, allocRun,
               consumer_pages, consumer_ticks>>

kernVars == <<table, pc, it, p, events, tickLog>>

kbdVars == <<key_buffer, key_read_pos, key_write_pos, unread, kcall>>

winVars == <<windows, active_window, needs_redraw, gpc, tab_start, wcall>>

deskVars == <<command_buffer, command_len, layout, stray, dcall, typing>>

mouseVars == <<mouse_x, mouse_y, mouse_buttons, mouse_cycle, mouse_byte,
               mouse_float, mcall>>

devVars == <<key_buffer, key_read_pos, key_write_pos, unread, kcall,
             windows, active_window, needs_redraw, gpc, tab_start, wcall,
             command_buffer, command_len, layout, stray, dcall, typing,
             mouse_x, mouse_y, mouse_buttons, mouse_cycle, mouse_byte,
             mouse_float, mcall>>

vars == <<page_bitmap, free_pages, page_mem, call, held, allocRun,
          consumer_pages, consumer_ticks,
          table, pc, it, p, events, tickLog,
          key_buffer, key_read_pos, key_write_pos, unread, kcall,
          windows, active_window, needs_redraw, gpc, tab_start, wcall,
          command_buffer, command_len, layout, stray, dcall, typing,
          mouse_x, mouse_y, mouse_buttons, mouse_cycle, mouse_byte,
          mouse_float, mcall>>

NoCall == [op |-> "none", arg |-> NULL, ret |-> NULL, was |-> 0]

Slots == 0 .. (KEY_BUFFER_SIZE - 1)

WinIdx == 0 .. (MAX_WINDOWS - 1)

NoKeyCall == [op |-> "none", ret |-> 0, status |-> 0, scancode |-> 0]

\* The texts shown in windows are longer than the window table is (60 and
\* more characters against 8 slots) and shorter than a content array (256
\* bytes in desktop.c:22, 512 in gui_desktop.c:30).  The model keeps both
\* relations: a text is the first TEXT_LEN characters of the literal.
TEXT_LEN == MAX_WINDOWS + 1

CONTENT_SIZE == TEXT_LEN + 1

ContentIdx == 0 .. (CONTENT_SIZE - 1)

Literal(s) == SubSeq(s, 1, TEXT_LEN)

\* a slot of windows[] as the loader leaves it: zero-filled
NoWindow ==
    [active |-> 0, title |-> "", content |-> [k \in ContentIdx |-> 0]]

NoWinCall == [op |-> "none", title |-> "", ret |-> 0]

CmdIdx == 0 .. (COMMAND_SIZE - 1)

NoDeskCall == [op |-> "none", ret |-> 0, was |-> 0]

\* The objects a store beyond the end of windows[] can land in.  A Window
\* takes 312 bytes (desktop.c:17-24), so character i goes to byte 313 * i + 52
\* of windows[]: the first store beyond the table lies 60 bytes behind its
\* end, each further one 313 bytes on.  The other zero-filled statics of
\* desktop.c (cursor_x, cursor_y, command_buffer, command_len, tick_counter)
\* take 84 bytes, so when they follow windows[] the first store hits one of
\* them and no later store does.  Byte 60 lies in command_buffer in every
\* order that puts the buffer there; command_len, 8 bytes at a multiple of
\* 8, would have to start at byte 56, with nothing but the three 4-byte
\* objects to fill the gap, and in no order does.  The layouts are therefore
\* a byte of command_buffer (the model takes the second and the last) or
\* memory that is none of the statics modelled here.  Which one is fixed
\* when the kernel is linked.
Elsewhere == [obj |-> "elsewhere", at |-> 0]

Layouts ==
    {Elsewhere, [obj |-> "command_buffer", at |-> 1],
     [obj |-> "command_buffer", at |-> COMMAND_SIZE - 1]}

NoMouseCall ==
    [op |-> "none", status |-> 0, data |-> 0, x |-> 0, y |-> 0, ret |-> 0]

\* the driver without smoothing has no float statics
NoFloats == [x |-> -1, y |-> -1, v |-> 0]

\* the float statics of the smoothing driver as the loader leaves them:
\* 160.0, 100.0 (the centre of the screen), 0.0, 0.0
CentreFloats ==
    [x |-> SCREEN_WIDTH \div 2, y |-> SCREEN_HEIGHT \div 2, v |-> 0]

\* the statics of keyboard.c, mouse.c, gui_desktop.c and desktop.c before
\* any init has run, in a kernel linked with layout lay and with the mouse
\* driver whose float statics are floats
DevStaticsOf(lay, floats) ==
    /\ mouse_x = SCREEN_WIDTH \div 2
    /\ mouse_y = SCREEN_HEIGHT \div 2
    /\ mouse_buttons = 0
    /\ mouse_cycle = 0
    /\ mouse_byte = [k \in 0 .. 2 |-> 0]
    /\ mouse_float = floats
    /\ mcall = NoMouseCall
    /\ command_buffer = [k \in CmdIdx |-> 0]
    /\ command_len = 0
    /\ layout = lay
    /\ stray = {}
    /\ dcall = NoDeskCall
    /\ typing = <<>>
    /\ key_buffer = [i \in Slots |-> 0]
    /\ key_read_pos = 0
    /\ key_write_pos = 0
    /\ unread = <<>>
    /\ kcall = NoKeyCall
    /\ windows = [i \in WinIdx |-> NoWindow]
    /\ active_window = -1
    /\ needs_redraw = 1
    /\ gpc = "init"
    /\ tab_start = -1
    /\ wcall = NoWinCall

DevStaticsAt(lay) == DevStaticsOf(lay, NoFloats)

DevStatics == DevStaticsAt(Elsewhere)

(***************************************************************************)
(* Allocator calls as steps: the code's effect plus the bookkeeping of     *)
(* call, held and allocRun.                                                *)
(***************************************************************************)
AllFree(bm) == \A i \in Pages : ~is_page_used(bm, i)

Do_kalloc_page ==
    LET r == kalloc_page(page_bitmap, free_pages, page_mem) IN
    /\ page_bitmap' = r.bitmap
    /\ free_pages' = r.free_pages
    /\ page_mem' = r.mem
    /\ call' = [op |-> "kalloc", arg |-> NULL, ret |-> r.ret,
                was |-> IF r.ret # NULL THEN page_mem[FreeIndex(r.ret)]
                        ELSE 0]
    /\ held' = IF r.ret # NULL THEN held \cup {r.ret} ELSE held
    /\ allocRun' = IF allocRun = <<>> /\ ~AllFree(page_bitmap) THEN <<>>
                   ELSE IF Len(allocRun) <= TOTAL_PAGES
                        THEN Append(allocRun, r.ret)
                        ELSE allocRun
    /\ UNCHANGED consVars

Do_kfree_page(addr) ==
    LET r == kfree_page(page_bitmap, free_pages, addr) IN
    /\ page_bitmap' = r.bitmap
    /\ free_pages' = r.free_pages
    /\ page_mem' = page_mem
    /\ call' = [op |-> "kfree", arg |-> addr, ret |-> NULL, was |-> 0]
    /\ held' = held \ {addr}
    /\ allocRun' = <<>>
    /\ UNCHANGED consVars

Do_memory_init ==
    LET r == memory_init(page_bitmap, free_pages) IN
    /\ page_bitmap' = r.bitmap
    /\ free_pages' = r.free_pages
    /\ page_mem' = page_mem
    /\ call' = [op |-> "memory_init", arg |-> NULL, ret |-> NULL, was |-> 0]
    /\ held' = held
    /\ allocRun' = <<>>
    /\ UNCHANGED consVars

\* kfree_page(addr) and then kalloc_page, by one caller with nothing between
Do_kfree_then_kalloc(addr) ==
    LET f == kfree_page(page_bitmap, free_pages, addr)
        r == kalloc_page(f.bitmap, f.free_pages, page_mem)
    IN /\ page_bitmap' = r.bitmap
       /\ free_pages' = r.free_pages
       /\ page_mem' = r.mem
       /\ call' = [op |-> "kfree_kalloc", arg |-> addr, ret |-> r.ret,
                   was |-> IF r.ret # NULL THEN page_mem[FreeIndex(r.ret)]
                           ELSE 0]
       /\ held' = IF r.ret # NULL THEN (held \ {addr}) \cup {r.ret}
                  ELSE held \ {addr}
       /\ allocRun' = <<>>
       /\ UNCHANGED consVars

\* kalloc_page and then kfree_page of what it returned, by one caller with
\* nothing between
Do_kalloc_then_kfree ==
    LET r == kalloc_page(page_bitmap, free_pages, page_mem)
        f == kfree_page(r.bitmap, r.free_pages, r.ret)
    IN /\ page_bitmap' = f.bitmap
       /\ free_pages' = f.free_pages
       /\ page_mem' = r.mem
       /\ call' = [op |-> "kalloc_kfree", arg |-> NULL, ret |-> r.ret,
                   was |-> IF r.ret # NULL THEN page_mem[FreeIndex(r.ret)]
                           ELSE 0]
       /\ held' = held \ {r.ret}
       /\ allocRun' = <<>>
       /\ UNCHANGED consVars

\* the owner of a page stores into it (the page is plain RAM behind the
\* void * that kalloc_page returned)
Do_write_page(addr) ==
    /\ page_mem' = [page_mem EXCEPT ![FreeIndex(addr)] = 2]
    /\ call' = [op |-> "write", arg |-> addr, ret |-> NULL, was |-> 0]
    /\ UNCHANGED <<page_bitmap, free_pages, held, allocRun>>
    /\ UNCHANGED consVars

Do_nothing ==
    /\ call' = NoCall
    /\ UNCHANGED <<page_bitmap, free_pages, page_mem, held, allocRun>>
    /\ UNCHANGED consVars

(***************************************************************************)
(* The allocator-consumer component of the end-to-end scenario.  Its code  *)
(* is not among the sources; it is written as the scenario words it: init  *)
(* allocates CONSUMER_PAGES pages, tick counts its calls and on every      *)
(* TICK_PERIOD-th call passes one of the pages of its init to kfree_page.  *)
(***************************************************************************)
CONSUMER_PAGES == 2

TICK_PERIOD == 100

SCENARIO_TICKS == 1000

\* init: CONSUMER_PAGES calls of kalloc_page, the results kept in order
RECURSIVE consumer_allocate(_, _, _, _, _)
consumer_allocate(n, bm, fp, mem, got) ==
    IF n = 0 THEN [bitmap |-> bm, free_pages |-> fp, mem |-> mem, got |-> got]
    ELSE LET r == kalloc_page(bm, fp, mem)
         IN consumer_allocate(n - 1, r.bitmap, r.free_pages, r.mem,
                              Append(got, r.ret))

Do_consumer_init ==
    LET r == consumer_allocate(CONSUMER_PAGES, page_bitmap, free_pages,
                               page_mem, <<>>)
    IN /\ page_bitmap' = r.bitmap
       /\ free_pages' = r.free_pages
       /\ page_mem' = r.mem
       /\ consumer_pages' = r.got
       /\ consumer_ticks' = 0
       /\ call' = [op |-> "consumer_init", arg |-> NULL,
                   ret |-> r.got[Len(r.got)], was |-> 0]
       /\ held' = (held \cup {r.got[k] : k \in 1 .. Len(r.got)}) \ {NULL}
       /\ allocRun' = <<>>

\* tick: counts the call; every TICK_PERIOD-th call frees one page
Do_consumer_tick ==
    /\ consumer_ticks < SCENARIO_TICKS
    /\ consumer_ticks' = consumer_ticks + 1
    /\ consumer_pages' = consumer_pages
    /\ IF (consumer_ticks + 1) % TICK_PERIOD = 0
       THEN \E k \in 1 .. Len(consumer_pages) :
               LET addr == consumer_pages[k]
                   r == kfree_page(page_bitmap, free_pages, addr)
               IN /\ page_bitmap' = r.bitmap
                  /\ free_pages' = r.free_pages
                  /\ call' = [op |-> "consumer_tick", arg |-> addr,
                              ret |-> NULL, was |-> 0]
                  /\ held' = held \ {addr}
       ELSE /\ call' = [op |-> "consumer_tick", arg |-> NULL, ret |-> NULL,
                        was |-> 0]
            /\ UNCHANGED <<page_bitmap, free_pages, held>>
    /\ page_mem' = page_mem
    /\ allocRun' = <<>>

(***************************************************************************)
(* SpecAlloc: any caller, any sequence of kalloc_page and kfree_page, and  *)
(* stores into the pages that are held.                                    *)
(***************************************************************************)
\* addresses handed to kfree_page: every page, one past the arena, a pointer
\* into the middle of page 1, NULL, and two addresses below base_address
FreeArgs ==
    PageAddrs \cup {PageAddr(TOTAL_PAGES), PageAddr(1) + 8, NULL,
                    base_address - PAGE_SIZE, base_address - 1}

AllocStatics ==
    /\ page_bitmap = [i \in Pages |-> 0]
    /\ free_pages = TOTAL_PAGES
    /\ page_mem = [i \in Pages |-> 1]
    /\ call = NoCall
    /\ held = {}
    /\ allocRun = <<>>
    /\ consumer_pages = <<>>
    /\ consumer_ticks = 0

InitAlloc ==
    /\ AllocStatics
    /\ DevStatics
    /\ table = <<>>
    /\ pc = "boot"
    /\ it = 1
    /\ p = 1
    /\ events = <<>>
    /\ tickLog = <<>>

Call_kalloc_page ==
    /\ Do_kalloc_page
    /\ UNCHANGED <<kernVars, devVars>>

Call_kfree_page ==
    \E addr \in FreeArgs :
        /\ FreeIndex(addr) < TOTAL_PAGES => free_pages < TOTAL_PAGES + MaxOverFree
        /\ Do_kfree_page(addr)
        /\ UNCHANGED <<kernVars, devVars>>

Call_kfree_then_kalloc ==
    \E addr \in PageAddrs :
        /\ Do_kfree_then_kalloc(addr)
        /\ UNCHANGED <<kernVars, devVars>>

Call_kalloc_then_kfree ==
    /\ Do_kalloc_then_kfree
    /\ UNCHANGED <<kernVars, devVars>>

Call_write_page ==
    \E addr \in held :
        /\ Do_write_page(addr)
        /\ UNCHANGED <<kernVars, devVars>>

NextAlloc ==
    \/ Call_kalloc_page
    \/ Call_kfree_page
    \/ Call_kfree_then_kalloc
    \/ Call_kalloc_then_kfree
    \/ Call_write_page

SpecAlloc == InitAlloc /\ [][NextAlloc]_vars

(***************************************************************************)
(* kernel.c: the component table.  A table entry is a pointer to a struct  *)
(* component; ptr = FALSE is a null pointer, name = FALSE a null name.     *)
(* A handler is "absent" (a null function pointer) or names what the       *)
(* function does to the allocator:                                         *)
(*   "plain"        nothing (hello_init, hello_tick, memory_tick, ...)     *)
(*   "memory_init"  memory.c's init                                        *)
(*   "client"       a component that uses the allocator surface of         *)
(*                  kernel.h: one kalloc_page, or one kfree_page of an     *)
(*                  address it holds                                       *)
(***************************************************************************)
NullEntry ==
    [ptr |-> FALSE, name |-> FALSE, init |-> "absent", tick |-> "absent"]

memory_component ==
    [ptr |-> TRUE, name |-> TRUE, init |-> "memory_init", tick |-> "plain"]

client_component ==
    [ptr |-> TRUE, name |-> TRUE, init |-> "client", tick |-> "client"]

NoInitComponent ==
    [ptr |-> TRUE, name |-> TRUE, init |-> "absent", tick |-> "plain"]

NoTickComponent ==
    [ptr |-> TRUE, name |-> TRUE, init |-> "plain", tick |-> "absent"]

NamelessComponent ==
    [ptr |-> TRUE, name |-> FALSE, init |-> "plain", tick |-> "plain"]

consumer_component ==
    [ptr |-> TRUE, name |-> TRUE, init |-> "consumer_init",
     tick |-> "consumer_tick"]

Catalogue ==
    {NullEntry, memory_component, client_component,
     NoInitComponent, NoTickComponent, NamelessComponent}

\* memory.c is linked once: at most one entry is the memory component
Tables ==
    {t \in UNION {[1 .. n -> Catalogue] : n \in 0 .. MaxComps} :
        Cardinality({i \in DOMAIN t : t[i] = memory_component}) <= 1}

\* the init test written like the tick test of kernel.c:121
InitSelected_NoName(c) == c.ptr

\* kernel.c:104, the test that guards the status line and the init call
InitSelected(c) == c.ptr /\ c.name

\* the tick test written like the init test of kernel.c:104
TickSelected_NeedsName(c) == c.ptr /\ c.name /\ c.tick # "absent"

\* kernel.c:121, the test that guards the tick call
TickSelected(c) == c.ptr /\ c.tick # "absent"

\* the call c->init() or c->tick(): what the handler does to the allocator
Invoke(h) ==
    \/ h = "memory_init" /\ Do_memory_init
    \/ h = "client" /\ Do_kalloc_page
    \/ h = "client" /\ \E a \in held : Do_kfree_page(a)
    \/ h = "plain" /\ Do_nothing
    \/ h = "consumer_init" /\ Do_consumer_init
    \/ h = "consumer_tick" /\ Do_consumer_tick

Init ==
    /\ AllocStatics
    /\ DevStatics
    /\ table \in Tables
    /\ pc = "boot"
    /\ it = 1
    /\ p = 1
    /\ events = <<>>
    /\ tickLog = <<>>

\* kernel_main, up to the call of register_components_and_init
KernelMainEntry ==
    /\ pc = "boot"
    /\ events' = Append(events, <<"welcome", 0>>)
    /\ pc' = "register"
    /\ Do_nothing
    /\ UNCHANGED <<table, it, p, tickLog>>
    /\ UNCHANGED devVars

\* register_components_and_init without the report of an empty table
RegisterEntry_Silent ==
    /\ pc = "register"
    /\ events' = events
    /\ pc' = IF Len(table) = 0 THEN "entering" ELSE "initloop"
    /\ it' = 1
    /\ Do_nothing
    /\ UNCHANGED <<table, p, tickLog>>
    /\ UNCHANGED devVars

\* register_components_and_init: the empty-table test
RegisterEntry ==
    /\ pc = "register"
    /\ IF Len(table) = 0
       THEN /\ events' = Append(events, <<"nocomps", 0>>)
            /\ pc' = "entering"
       ELSE /\ events' = events
            /\ pc' = "initloop"
    /\ it' = 1
    /\ Do_nothing
    /\ UNCHANGED <<table, p, tickLog>>
    /\ UNCHANGED devVars

\* register_components_and_init: one iteration of the while loop
RegisterStep ==
    /\ pc = "initloop"
    /\ it <= Len(table)
    /\ LET c == table[it] IN
       IF InitSelected(c)
       THEN IF c.init # "absent"
            THEN /\ events' = events \o <<<<"status", it>>, <<"init", it>>>>
                 /\ Invoke(c.init)
            ELSE /\ events' = Append(events, <<"status", it>>)
                 /\ Do_nothing
       ELSE /\ events' = events
            /\ Do_nothing
    /\ it' = it + 1
    /\ UNCHANGED <<table, pc, p, tickLog>>
    /\ UNCHANGED devVars

\* register_components_and_init returns to kernel_main
RegisterReturn ==
    /\ pc = "initloop"
    /\ it > Len(table)
    /\ pc' = "entering"
    /\ Do_nothing
    /\ UNCHANGED <<table, it, p, events, tickLog>>
    /\ UNCHANGED devVars

\* kernel_main announces the loop and calls kernel_main_loop
EnterMainLoop ==
    /\ pc = "entering"
    /\ events' = Append(events, <<"entering", 0>>)
    /\ pc' = "pass"
    /\ p' = 1
    /\ Do_nothing
    /\ UNCHANGED <<table, it, tickLog>>
    /\ UNCHANGED devVars

\* kernel_main_loop: one iteration of the for loop
TickStep ==
    /\ pc = "pass"
    /\ p <= Len(table)
    /\ LET c == table[p] IN
       IF TickSelected(c)
       THEN /\ tickLog' = Append(tickLog, p)
            /\ Invoke(c.tick)
       ELSE /\ tickLog' = tickLog
            /\ Do_nothing
    /\ p' = p + 1
    /\ UNCHANGED <<table, pc, it, events>>
    /\ UNCHANGED devVars

\* kernel_main_loop whose busy-wait may begin before the for loop has ended
PassEnd_Early ==
    /\ pc = "pass"
    /\ pc' = "delay"
    /\ Do_nothing
    /\ UNCHANGED <<table, it, p, events, tickLog>>
    /\ UNCHANGED devVars

\* kernel_main_loop: the for loop ends, the busy-wait begins
PassEnd ==
    /\ pc = "pass"
    /\ p > Len(table)
    /\ pc' = "delay"
    /\ Do_nothing
    /\ UNCHANGED <<table, it, p, events, tickLog>>
    /\ UNCHANGED devVars

\* kernel_main_loop whose next pass resumes where the last one stopped
BusyWait_NoRestart ==
    /\ pc = "delay"
    /\ pc' = "pass"
    /\ p' = p
    /\ tickLog' = <<>>
    /\ Do_nothing
    /\ UNCHANGED <<table, it, events>>
    /\ UNCHANGED devVars

\* kernel_main_loop that returns after the busy-wait
BusyWait_Returns ==
    /\ pc = "delay"
    /\ pc' = "returned"
    /\ Do_nothing
    /\ UNCHANGED <<table, it, p, events, tickLog>>
    /\ UNCHANGED devVars

\* kernel_main_loop: the busy-wait ends, while (1) starts the next pass
BusyWait ==
    /\ pc = "delay"
    /\ pc' = "pass"
    /\ p' = 1
    /\ tickLog' = <<>>
    /\ Do_nothing
    /\ UNCHANGED <<table, it, events>>
    /\ UNCHANGED devVars

Next ==
    \/ KernelMainEntry
    \/ RegisterEntry
    \/ RegisterStep
    \/ RegisterReturn
    \/ EnterMainLoop
    \/ TickStep
    \/ PassEnd
    \/ BusyWait

Spec == Init /\ [][Next]_vars

\* every handler returns and the busy-wait completes: kernel_main keeps stepping
FairSpec == Init /\ [][Next]_vars /\ WF_vars(Next)

(***************************************************************************)
(* SpecShapes: kernel_main over the tables of every shape of entry: a null *)
(* pointer, or a descriptor with a null or non-null name, an absent or     *)
(* present init and an absent or present tick (handlers that leave the     *)
(* allocator alone).                                                       *)
(***************************************************************************)
Shapes ==
    {NullEntry} \cup
    [ptr : {TRUE}, name : BOOLEAN,
     init : {"absent", "plain"}, tick : {"absent", "plain"}]

InitShapes ==
    /\ AllocStatics
    /\ DevStatics
    /\ table \in UNION {[1 .. n -> Shapes] : n \in 0 .. MaxComps}
    /\ pc = "boot"
    /\ it = 1
    /\ p = 1
    /\ events = <<>>
    /\ tickLog = <<>>

SpecShapes == InitShapes /\ [][Next]_vars

(***************************************************************************)
(* SpecConsumer: kernel_main over the table of the end-to-end scenario,    *)
(* one allocator-consumer component, for SCENARIO_TICKS ticks.             *)
(***************************************************************************)
InitConsumer ==
    /\ AllocStatics
    /\ DevStatics
    /\ table = <<consumer_component>>
    /\ pc = "boot"
    /\ it = 1
    /\ p = 1
    /\ events = <<>>
    /\ tickLog = <<>>

SpecConsumer == InitConsumer /\ [][Next]_vars

(***************************************************************************)
(* keyboard.c: the PS/2 driver.  Characters are their ASCII codes.         *)
(***************************************************************************)
\* the translation table, scancode 0 first
scancode_to_ascii ==
    <<0, 0, 49, 50, 51, 52, 53, 54, 55, 56, 57, 48, 45, 61, 8,
      9, 113, 119, 101, 114, 116, 121, 117, 105, 111, 112, 91, 93, 10,
      0, 97, 115, 100, 102, 103, 104, 106, 107, 108, 59, 39, 96,
      0, 92, 122, 120, 99, 118, 98, 110, 109, 44, 46, 47, 0, 42,
      0, 32>>

keyboard_has_key(rp, wp) == rp # wp

\* keyboard_get_key that advances key_read_pos also when the ring is empty
keyboard_get_key_AdvanceEmpty(buf, rp, wp) ==
    IF ~keyboard_has_key(rp, wp)
    THEN [ret |-> 0, read_pos |-> (rp + 1) % KEY_BUFFER_SIZE]
    ELSE [ret |-> buf[rp], read_pos |-> (rp + 1) % KEY_BUFFER_SIZE]

\* keyboard_get_key that returns the character and leaves key_read_pos alone
keyboard_get_key_NoAdvance(buf, rp, wp) ==
    IF ~keyboard_has_key(rp, wp)
    THEN [ret |-> 0, read_pos |-> rp]
    ELSE [ret |-> buf[rp], read_pos |-> rp]

keyboard_get_key(buf, rp, wp) ==
    IF ~keyboard_has_key(rp, wp)
    THEN [ret |-> 0, read_pos |-> rp]
    ELSE [ret |-> buf[rp], read_pos |-> (rp + 1) % KEY_BUFFER_SIZE]

\* keyboard_tick that stores the character also when the ring is full
keyboard_tick_NoFullCheck(buf, rp, wp, status, scancode) ==
    IF status % 2 = 0 THEN [buffer |-> buf, write_pos |-> wp]
    ELSE IF scancode >= 128 THEN [buffer |-> buf, write_pos |-> wp]
    ELSE IF scancode >= Len(scancode_to_ascii)
         THEN [buffer |-> buf, write_pos |-> wp]
    ELSE LET c == scancode_to_ascii[scancode + 1] IN
         IF c = 0 THEN [buffer |-> buf, write_pos |-> wp]
         ELSE [buffer |-> [buf EXCEPT ![wp] = c],
               write_pos |-> (wp + 1) % KEY_BUFFER_SIZE]

\* keyboard_tick whose write position is advanced without the wrap
keyboard_tick_NoWrap(buf, rp, wp, status, scancode) ==
    IF status % 2 = 0 THEN [buffer |-> buf, write_pos |-> wp]
    ELSE IF scancode >= 128 THEN [buffer |-> buf, write_pos |-> wp]
    ELSE IF scancode >= Len(scancode_to_ascii)
         THEN [buffer |-> buf, write_pos |-> wp]
    ELSE LET c == scancode_to_ascii[scancode + 1]
             next == wp + 1
         IN IF c = 0 THEN [buffer |-> buf, write_pos |-> wp]
            ELSE IF next # rp
                 THEN [buffer |-> [buf EXCEPT ![wp] = c], write_pos |-> next]
                 ELSE [buffer |-> buf, write_pos |-> wp]

\* keyboard_tick that also stores the codes the table maps to 0
keyboard_tick_StoresZero(buf, rp, wp, status, scancode) ==
    IF status % 2 = 0 THEN [buffer |-> buf, write_pos |-> wp]
    ELSE IF scancode >= 128 THEN [buffer |-> buf, write_pos |-> wp]
    ELSE IF scancode >= Len(scancode_to_ascii)
         THEN [buffer |-> buf, write_pos |-> wp]
    ELSE LET c == scancode_to_ascii[scancode + 1]
             next == (wp + 1) % KEY_BUFFER_SIZE
         IN IF next # rp
            THEN [buffer |-> [buf EXCEPT ![wp] = c], write_pos |-> next]
            ELSE [buffer |-> buf, write_pos |-> wp]

\* the character keyboard_tick translates from the bytes it reads, 0 when it
\* has none to store (no data, a release code, a code without translation)
TranslatedChar(status, scancode) ==
    IF status % 2 = 0 THEN 0
    ELSE IF scancode >= 128 THEN 0
    ELSE IF scancode >= Len(scancode_to_ascii) THEN 0
    ELSE scancode_to_ascii[scancode + 1]

\* keyboard_tick: status and scancode are the bytes read from ports 0x64 and
\* 0x60; the ring after the call
keyboard_tick(buf, rp, wp, status, scancode) ==
    IF status % 2 = 0 THEN [buffer |-> buf, write_pos |-> wp]
    ELSE IF scancode >= 128 THEN [buffer |-> buf, write_pos |-> wp]
    ELSE IF scancode >= Len(scancode_to_ascii)
         THEN [buffer |-> buf, write_pos |-> wp]
    ELSE LET c == scancode_to_ascii[scancode + 1]
             next == (wp + 1) % KEY_BUFFER_SIZE
         IN IF c = 0 THEN [buffer |-> buf, write_pos |-> wp]
            ELSE IF next # rp
                 THEN [buffer |-> [buf EXCEPT ![wp] = c], write_pos |-> next]
                 ELSE [buffer |-> buf, write_pos |-> wp]

\* bytes the controller delivers: Tab, 'x', 'h', Escape (translated to 0),
\* the first code beyond the table, and the release code of Tab
Scancodes == {15, 45, 35, 1, 58, 143}

\* keyboard_tick as a step; unread gains the character when one was stored;
\* kcall records the status byte, the scancode when the data port was read,
\* and in ret the character that arrived (the function returns void)
Do_keyboard_tick(status, scancode) ==
    LET r == keyboard_tick(key_buffer, key_read_pos, key_write_pos,
                           status, scancode)
    IN /\ key_buffer' = r.buffer
       /\ key_write_pos' = r.write_pos
       /\ key_read_pos' = key_read_pos
       /\ unread' = IF r.write_pos # key_write_pos
                    THEN Append(unread, scancode_to_ascii[scancode + 1])
                    ELSE unread
       /\ kcall' = [op |-> "tick", ret |-> TranslatedChar(status, scancode),
                    status |-> status,
                    scancode |-> IF status % 2 = 1 THEN scancode ELSE 0]

\* keyboard_get_key as a step; unread loses its oldest character
Do_keyboard_get_key ==
    LET r == keyboard_get_key(key_buffer, key_read_pos, key_write_pos)
    IN /\ key_read_pos' = r.read_pos
       /\ key_buffer' = key_buffer
       /\ key_write_pos' = key_write_pos
       /\ unread' = IF unread = <<>> THEN unread ELSE Tail(unread)
       /\ kcall' = [op |-> "get_key", ret |-> r.ret,
                    status |-> 0, scancode |-> 0]

(***************************************************************************)
(* SpecKbd: the driver ticked by the kernel and read by any consumer.      *)
(***************************************************************************)
InitKbd ==
    /\ AllocStatics
    /\ DevStatics
    /\ table = <<>>
    /\ pc = "boot"
    /\ it = 1
    /\ p = 1
    /\ events = <<>>
    /\ tickLog = <<>>

\* the status bytes (bit 0: a byte is waiting; bit 1 is set by the controller
\* independently) and the scancodes the caller of SpecKbd delivers: those of
\* the desktops plus the last code of the table
StatusBytes == {0, 1, 2}

KeySpace == 57

Call_keyboard_tick ==
    \E status \in StatusBytes, scancode \in Scancodes \cup {KeySpace} :
        /\ Do_keyboard_tick(status, scancode)
        /\ UNCHANGED <<mouseVars, allocVars, kernVars, deskVars, winVars>>

Call_keyboard_get_key ==
    /\ Do_keyboard_get_key
    /\ UNCHANGED <<mouseVars, allocVars, kernVars, deskVars, winVars>>

NextKbd == Call_keyboard_tick \/ Call_keyboard_get_key

SpecKbd == InitKbd /\ [][NextKbd]_vars

(***************************************************************************)
(* mouse.c: the PS/2 mouse driver, in its two versions: the one that moves *)
(* the pointer by the packet's displacement (integer driver) and the one   *)
(* that smooths the movement with float arithmetic.  Bytes are 0..255.     *)
(***************************************************************************)
\* bit k of byte b
Bit(b, k) == (b \div (2 ^ k)) % 2

\* (int8_t)b
Signed8(b) == IF b >= 128 THEN b - 256 ELSE b

\* the two if statements that clamp a coordinate to 0..max
Clamp(v, max) == IF v < 0 THEN 0 ELSE IF v > max THEN max ELSE v

\* mouse_tick of the integer driver with the overflow flags ignored
mouse_tick_NoOverflowCheck(x, y, buttons, cycle, byte, status, data) ==
    LET same == [x |-> x, y |-> y, buttons |-> buttons, cycle |-> cycle,
                 byte |-> byte]
    IN IF status % 2 = 0 THEN same
       ELSE IF cycle = 0
       THEN IF Bit(data, 3) = 0 THEN same
            ELSE [same EXCEPT !.byte = [byte EXCEPT ![0] = data], !.cycle = 1]
       ELSE IF cycle = 1
       THEN [same EXCEPT !.byte = [byte EXCEPT ![1] = data], !.cycle = 2]
       ELSE IF cycle = 2
       THEN LET b == [byte EXCEPT ![2] = data]
            IN [x |-> Clamp(x + Signed8(b[1]), SCREEN_WIDTH - 1),
                y |-> Clamp(y - Signed8(b[2]), SCREEN_HEIGHT - 1),
                buttons |-> b[0] % 8, cycle |-> 0, byte |-> b]
       ELSE same

\* mouse_tick of the integer driver with a first byte accepted whatever its
\* bit 3
mouse_tick_NoResync(x, y, buttons, cycle, byte, status, data) ==
    LET same == [x |-> x, y |-> y, buttons |-> buttons, cycle |-> cycle,
                 byte |-> byte]
    IN IF status % 2 = 0 THEN same
       ELSE IF cycle = 0
       THEN [same EXCEPT !.byte = [byte EXCEPT ![0] = data], !.cycle = 1]
       ELSE IF cycle = 1
       THEN [same EXCEPT !.byte = [byte EXCEPT ![1] = data], !.cycle = 2]
       ELSE IF cycle = 2
       THEN LET b == [byte EXCEPT ![2] = data]
                dx == IF Bit(b[0], 6) = 1 THEN 0 ELSE Signed8(b[1])
                dy == IF Bit(b[0], 7) = 1 THEN 0 ELSE Signed8(b[2])
            IN [x |-> Clamp(x + dx, SCREEN_WIDTH - 1),
                y |-> Clamp(y - dy, SCREEN_HEIGHT - 1),
                buttons |-> b[0] % 8, cycle |-> 0, byte |-> b]
       ELSE same

\* mouse_tick of the integer driver; status and data are the bytes read from
\* ports 0x64 and 0x60; the statics after the call
mouse_tick(x, y, buttons, cycle, byte, status, data) ==
    LET same == [x |-> x, y |-> y, buttons |-> buttons, cycle |-> cycle,
                 byte |-> byte]
    IN IF status % 2 = 0 THEN same
       ELSE IF cycle = 0
       THEN IF Bit(data, 3) = 0 THEN same
            ELSE [same EXCEPT !.byte = [byte EXCEPT ![0] = data], !.cycle = 1]
       ELSE IF cycle = 1
       THEN [same EXCEPT !.byte = [byte EXCEPT ![1] = data], !.cycle = 2]
       ELSE IF cycle = 2
       THEN LET b == [byte EXCEPT ![2] = data]
                dx == IF Bit(b[0], 6) = 1 THEN 0 ELSE Signed8(b[1])
                dy == IF Bit(b[0], 7) = 1 THEN 0 ELSE Signed8(b[2])
            IN [x |-> Clamp(x + dx, SCREEN_WIDTH - 1),
                y |-> Clamp(y - dy, SCREEN_HEIGHT - 1),
                buttons |-> b[0] % 8, cycle |-> 0, byte |-> b]
       ELSE same

\* The float statics after a packet.  The driver computes them in single
\* precision (acceleration, blending of the old velocity with the new, then
\* the clamping of the position to 0..319 and 0..199); the model does not
\* compute in floating point: it admits after a packet every position inside
\* the clamping range, with the pointer at rest or moving.
SmoothedFloats ==
    [x : 0 .. (SCREEN_WIDTH - 1), y : 0 .. (SCREEN_HEIGHT - 1), v : {0, 1}]

\* mouse_tick of the smoothing driver; f is the value of the float statics
\* after the arithmetic of a complete packet; mouse_x and mouse_y are the
\* casts of the clamped float position
smooth_mouse_tick(x, y, buttons, cycle, byte, floats, status, data, f) ==
    LET same == [x |-> x, y |-> y, buttons |-> buttons, cycle |-> cycle,
                 byte |-> byte, floats |-> floats]
    IN IF status % 2 = 0 THEN same
       ELSE IF cycle = 0
       THEN IF Bit(data, 3) = 0 THEN same
            ELSE [same EXCEPT !.byte = [byte EXCEPT ![0] = data], !.cycle = 1]
       ELSE IF cycle = 1
       THEN [same EXCEPT !.byte = [byte EXCEPT ![1] = data], !.cycle = 2]
       ELSE IF cycle = 2
       THEN LET b == [byte EXCEPT ![2] = data]
            IN [x |-> f.x, y |-> f.y, buttons |-> b[0] % 8, cycle |-> 0,
                byte |-> b, floats |-> f]
       ELSE same

\* bytes the mouse sends: a first byte without flags (displacement +8), one
\* with the Y overflow flag (-120), one with the X overflow flag and the
\* three buttons (+127), a byte with bit 3 clear (+1), and one with every
\* bit set (-1)
MouseBytes == {8, 136, 127, 1, 255}

\* the bytes fed to the smoothing driver: a first byte, a byte with bit 3
\* clear and a byte with every bit set
SmoothBytes == {8, 1, 255}

\* the record of a tick: the status byte, and the data byte when it was read
TickCall(status, data) ==
    [op |-> "tick", status |-> status,
     data |-> IF status % 2 = 1 THEN data ELSE 0, x |-> 0, y |-> 0, ret |-> 0]

(***************************************************************************)
(* SpecMouse: either mouse driver, initialised, fed any stream of bytes    *)
(* and read by any caller.                                                 *)
(***************************************************************************)
InitMouse ==
    /\ AllocStatics
    /\ \E f \in {NoFloats, CentreFloats} : DevStaticsOf(Elsewhere, f)
    /\ table = <<>>
    /\ pc = "boot"
    /\ it = 1
    /\ p = 1
    /\ events = <<>>
    /\ tickLog = <<>>

\* mouse_init: the commands to the controller, then the reset of the cycle
Call_mouse_init ==
    /\ mcall.op = "none"
    /\ mouse_cycle' = 0
    /\ mcall' = [NoMouseCall EXCEPT !.op = "init"]
    /\ UNCHANGED <<mouse_x, mouse_y, mouse_buttons, mouse_byte, mouse_float>>
    /\ UNCHANGED <<allocVars, kernVars, kbdVars, winVars, deskVars>>

Call_mouse_tick ==
    /\ mcall.op # "none"
    /\ mouse_float = NoFloats
    /\ \E status \in {0, 1, 2}, data \in MouseBytes :
           LET r == mouse_tick(mouse_x, mouse_y, mouse_buttons, mouse_cycle,
                               mouse_byte, status, data)
           IN /\ mouse_x' = r.x
              /\ mouse_y' = r.y
              /\ mouse_buttons' = r.buttons
              /\ mouse_cycle' = r.cycle
              /\ mouse_byte' = r.byte
              /\ mcall' = TickCall(status, data)
    /\ UNCHANGED mouse_float
    /\ UNCHANGED <<allocVars, kernVars, kbdVars, winVars, deskVars>>

Call_smooth_mouse_tick ==
    /\ mcall.op # "none"
    /\ mouse_float # NoFloats
    /\ \E status \in {0, 1, 2}, data \in SmoothBytes :
       \E f \in IF status % 2 = 1 /\ mouse_cycle = 2
                THEN SmoothedFloats ELSE {mouse_float} :
           LET r == smooth_mouse_tick(mouse_x, mouse_y, mouse_buttons,
                                      mouse_cycle, mouse_byte, mouse_float,
                                      status, data, f)
           IN /\ mouse_x' = r.x
              /\ mouse_y' = r.y
              /\ mouse_buttons' = r.buttons
              /\ mouse_cycle' = r.cycle
              /\ mouse_byte' = r.byte
              /\ mouse_float' = r.floats
              /\ mcall' = TickCall(status, data)
    /\ UNCHANGED <<allocVars, kernVars, kbdVars, winVars, deskVars>>

\* mouse_get_position: x and y are the values stored through the pointers
Call_mouse_get_position ==
    /\ mcall.op # "none"
    /\ mcall' = [NoMouseCall EXCEPT !.op = "get_position", !.x = mouse_x,
                                    !.y = mouse_y]
    /\ UNCHANGED <<mouse_x, mouse_y, mouse_buttons, mouse_cycle, mouse_byte,
                   mouse_float>>
    /\ UNCHANGED <<allocVars, kernVars, kbdVars, winVars, deskVars>>

Call_mouse_get_buttons ==
    /\ mcall.op # "none"
    /\ mcall' = [NoMouseCall EXCEPT !.op = "get_buttons",
                                    !.ret = mouse_buttons]
    /\ UNCHANGED <<mouse_x, mouse_y, mouse_buttons, mouse_cycle, mouse_byte,
                   mouse_float>>
    /\ UNCHANGED <<allocVars, kernVars, kbdVars, winVars, deskVars>>

NextMouse ==
    \/ Call_mouse_init
    \/ Call_mouse_tick
    \/ Call_smooth_mouse_tick
    \/ Call_mouse_get_position
    \/ Call_mouse_get_buttons

SpecMouse == InitMouse /\ [][NextMouse]_vars

(***************************************************************************)
(* gui_desktop.c and desktop.c: the window table.  A title is the string   *)
(* copied into the slot (every title the desktops pass is shorter than the *)
(* field, so the bounded copy loop copies it whole); a content is the      *)
(* array of character codes; the geometry of a window and the drawing are  *)
(* left out.                                                               *)
(***************************************************************************)
\* the for loop of create_window: the first inactive slot at or after i,
\* MAX_WINDOWS when there is none
RECURSIVE FirstInactive(_, _)
FirstInactive(ws, i) ==
    IF i >= MAX_WINDOWS THEN MAX_WINDOWS
    ELSE IF ws[i].active = 0 THEN i
    ELSE FirstInactive(ws, i + 1)

\* create_window that takes slot 0 again when every slot is active
create_window_Recycle(ws, aw, title) ==
    LET i == FirstInactive(ws, 0)
        k == IF i < MAX_WINDOWS THEN i ELSE 0
    IN [windows |-> [ws EXCEPT ![k] =
                        [active |-> 1, title |-> title,
                         content |-> [ws[k].content EXCEPT ![0] = 0]]],
        active_window |-> k,
        ret |-> k]

\* gui_desktop.c, create_window: the window table, active_window and the
\* returned index
create_window(ws, aw, title) ==
    LET i == FirstInactive(ws, 0) IN
    IF i < MAX_WINDOWS
    THEN [windows |-> [ws EXCEPT ![i] =
                          [active |-> 1, title |-> title,
                           content |-> [ws[i].content EXCEPT ![0] = 0]]],
          active_window |-> i,
          ret |-> i]
    ELSE [windows |-> ws, active_window |-> aw, ret |-> -1]

\* desktop.c, create_window: active_window moves only when it was -1
desktop_create_window(ws, aw, title) ==
    LET i == FirstInactive(ws, 0) IN
    IF i < MAX_WINDOWS
    THEN [windows |-> [ws EXCEPT ![i] =
                          [active |-> 1, title |-> title,
                           content |-> [ws[i].content EXCEPT ![0] = 0]]],
          active_window |-> IF aw = -1 THEN i ELSE aw,
          ret |-> i]
    ELSE [windows |-> ws, active_window |-> aw, ret |-> -1]

\* gui_desktop.c, set_window_content: the copy loop stops at the end of the
\* text or one byte before the end of the array, then the NUL is stored
set_window_content(ws, idx, content) ==
    IF idx < 0 \/ idx >= MAX_WINDOWS THEN ws
    ELSE IF ws[idx].active = 0 THEN ws
    ELSE LET n == Min(Len(content), CONTENT_SIZE - 1) IN
         [ws EXCEPT ![idx].content =
             [k \in ContentIdx |->
                 IF k < n THEN content[k + 1]
                 ELSE IF k = n THEN 0
                 ELSE @[k]]]

\* gui_desktop.c: "OpenComp Desktop...", "Graphics: 320x200...",
\* "OpenComp Help..."
GuiWelcomeText == Literal(<<79, 112, 101, 110, 67, 111, 109, 112>>)

GuiSystemText == Literal(<<71, 114, 97, 112, 104, 105, 99, 115>>)

GuiHelpText == Literal(<<79, 112, 101, 110, 67, 111, 109, 112>>)

\* the for loop of the X branch: the first active slot at or after i, -1
\* when there is none
RECURSIVE FirstActive(_, _)
FirstActive(ws, i) ==
    IF i >= MAX_WINDOWS THEN -1
    ELSE IF ws[i].active # 0 THEN i
    ELSE FirstActive(ws, i + 1)

\* handle_keyboard, the X branch: close window aw, activate the lowest left
CloseWindow(ws, aw) ==
    IF aw >= 0
    THEN LET closed == [ws EXCEPT ![aw].active = 0]
         IN [windows |-> closed, active_window |-> FirstActive(closed, 0)]
    ELSE [windows |-> ws, active_window |-> aw]

\* handle_keyboard, the H branch
OpenHelp(ws, aw) ==
    LET c == create_window(ws, aw, "Help") IN
    [windows |-> IF c.ret >= 0
                 THEN set_window_content(c.windows, c.ret, GuiHelpText)
                 ELSE c.windows,
     active_window |-> c.active_window]

\* gui_desktop_init: the windows and active_window it leaves
gui_desktop_init(ws, aw) ==
    LET cleared == [i \in WinIdx |-> [ws[i] EXCEPT !.active = 0]]
        c1 == create_window(cleared, aw, "Welcome")
        w1 == IF c1.ret >= 0
              THEN set_window_content(c1.windows, c1.ret, GuiWelcomeText)
              ELSE c1.windows
        c2 == create_window(w1, c1.active_window, "System")
        w2 == IF c2.ret >= 0
              THEN set_window_content(c2.windows, c2.ret, GuiSystemText)
              ELSE c2.windows
    IN [windows |-> w2, active_window |-> c2.active_window]

(***************************************************************************)
(* SpecGui: the kernel's tick loop over the keyboard component and the     *)
(* graphical desktop, in either table order.  gpc is "init" before         *)
(* gui_desktop_init, "keyboard" when keyboard_tick is next, "gui" when     *)
(* gui_desktop_tick is next and "tab" inside the do-while loop of the Tab  *)
(* branch of handle_keyboard.                                              *)
(***************************************************************************)
InitGui ==
    /\ AllocStatics
    /\ DevStatics
    /\ table = <<>>
    /\ pc = "boot"
    /\ it = 1
    /\ p = 1
    /\ events = <<>>
    /\ tickLog = <<>>

\* the init phase: gui_desktop_init (keyboard_init only writes a line)
Gui_init ==
    /\ gpc = "init"
    /\ LET r == gui_desktop_init(windows, active_window) IN
       /\ windows' = r.windows
       /\ active_window' = r.active_window
    /\ needs_redraw' = 1
    /\ gpc' \in {"keyboard", "gui"}
    /\ UNCHANGED <<tab_start, wcall>>
    /\ UNCHANGED <<mouseVars, allocVars, kernVars, deskVars, kbdVars>>

Gui_keyboard_tick ==
    /\ gpc = "keyboard"
    /\ \E status \in {0, 1}, scancode \in Scancodes :
           Do_keyboard_tick(status, scancode)
    /\ gpc' = "gui"
    /\ UNCHANGED <<windows, active_window, needs_redraw, tab_start, wcall>>
    /\ UNCHANGED <<mouseVars, allocVars, kernVars, deskVars>>

\* gui_desktop_tick: handle_keyboard up to its return or to the entry of the
\* Tab loop, then the redraw that clears needs_redraw
gui_desktop_tick ==
    /\ gpc = "gui"
    /\ IF ~keyboard_has_key(key_read_pos, key_write_pos)
       THEN /\ UNCHANGED kbdVars
            /\ UNCHANGED <<windows, active_window, tab_start>>
            /\ needs_redraw' = 0
            /\ gpc' = "keyboard"
       ELSE /\ Do_keyboard_get_key
            /\ LET key == key_buffer[key_read_pos] IN
               IF key = 9
               THEN /\ tab_start' = active_window
                    /\ gpc' = "tab"
                    /\ UNCHANGED <<windows, active_window, needs_redraw>>
               ELSE IF key \in {120, 88}
               THEN LET r == CloseWindow(windows, active_window) IN
                    /\ windows' = r.windows
                    /\ active_window' = r.active_window
                    /\ needs_redraw' = 0
                    /\ gpc' = "keyboard"
                    /\ tab_start' = tab_start
               ELSE IF active_window < 0
               THEN /\ needs_redraw' = 0
                    /\ gpc' = "keyboard"
                    /\ UNCHANGED <<windows, active_window, tab_start>>
               ELSE IF key \in {104, 72}
               THEN LET r == OpenHelp(windows, active_window) IN
                    /\ windows' = r.windows
                    /\ active_window' = r.active_window
                    /\ needs_redraw' = 0
                    /\ gpc' = "keyboard"
                    /\ tab_start' = tab_start
               ELSE /\ needs_redraw' = 0
                    /\ gpc' = "keyboard"
                    /\ UNCHANGED <<windows, active_window, tab_start>>
    /\ wcall' = wcall
    /\ UNCHANGED <<mouseVars, allocVars, kernVars, deskVars>>

\* handle_keyboard: one iteration of the do-while loop of the Tab branch;
\* when the loop ends, handle_keyboard and gui_desktop_tick run to their end
handle_keyboard_TabLoop ==
    /\ gpc = "tab"
    /\ LET next == IF active_window + 1 >= MAX_WINDOWS THEN 0
                   ELSE active_window + 1
       IN /\ active_window' = next
          /\ IF windows[next].active # 0 \/ next = tab_start
             THEN /\ gpc' = "keyboard"
                  /\ needs_redraw' = 0
                  /\ tab_start' = -1
             ELSE /\ gpc' = "tab"
                  /\ UNCHANGED <<needs_redraw, tab_start>>
    /\ UNCHANGED <<windows, wcall>>
    /\ UNCHANGED <<mouseVars, allocVars, kernVars, deskVars, kbdVars>>

NextGui ==
    \/ Gui_init
    \/ Gui_keyboard_tick
    \/ gui_desktop_tick
    \/ handle_keyboard_TabLoop

SpecGui == InitGui /\ [][NextGui]_vars

\* the kernel keeps running: the step that is next is eventually taken
FairSpecGui == InitGui /\ [][NextGui]_vars /\ WF_vars(NextGui)

(***************************************************************************)
(* desktop.c: the text desktop.                                            *)
(***************************************************************************)
\* "Welcome to OpenComp!...", "Commands:...", "OpenComp Kernel v0.1...", and
\* the text handle_command builds for the Memory window, "Free pages: " and
\* the number of free pages (the number lies beyond the first TEXT_LEN
\* characters)
DeskWelcomeText == Literal(<<87, 101, 108, 99, 111, 109, 101, 32>>)

DeskHelpText == Literal(<<67, 111, 109, 109, 97, 110, 100, 115>>)

DeskAboutText == Literal(<<79, 112, 101, 110, 67, 111, 109, 112>>)

DeskMemText == Literal(<<70, 114, 101, 101, 32, 112, 97, 103>>)

\* desktop.c, set_window_content.  The loop stores character i of the text
\* into windows[i].content[i] (desktop.c:153): for i below MAX_WINDOWS that
\* is byte i of the content of window i, for i from MAX_WINDOWS on it is a
\* store beyond the end of windows[].  strays are the characters stored
\* beyond the end, in order.  The NUL goes into the content of window idx.
desktop_set_window_content(ws, idx, content) ==
    IF idx < 0 \/ idx >= MAX_WINDOWS THEN [windows |-> ws, strays |-> <<>>]
    ELSE IF ws[idx].active = 0 THEN [windows |-> ws, strays |-> <<>>]
    ELSE LET n == Min(Len(content), CONTENT_SIZE - 1)
             copied == [j \in WinIdx |->
                           IF j < n
                           THEN [ws[j] EXCEPT !.content[j] = content[j + 1]]
                           ELSE ws[j]]
         IN [windows |-> [copied EXCEPT ![idx].content[n] = 0],
             strays |-> [k \in 1 .. (n - MAX_WINDOWS) |->
                            content[MAX_WINDOWS + k]]]

\* what the stores beyond the end of windows[] do to the other statics of
\* desktop.c: the first one lands in the object the layout names, later
\* ones lie further on; command_len is out of their reach
StrayStores(buf, len, lay, strays) ==
    IF strays = <<>> THEN [buffer |-> buf, len |-> len]
    ELSE IF lay.obj = "command_buffer"
    THEN [buffer |-> [buf EXCEPT ![lay.at] = strays[1]], len |-> len]
    ELSE [buffer |-> buf, len |-> len]

\* create_window followed by set_window_content when it returned a slot
OpenTextWindow(ws, aw, buf, len, lay, title, text) ==
    LET c == desktop_create_window(ws, aw, title)
        w == IF c.ret >= 0
             THEN desktop_set_window_content(c.windows, c.ret, text)
             ELSE [windows |-> c.windows, strays |-> <<>>]
        m == StrayStores(buf, len, lay, w.strays)
    IN [windows |-> w.windows, active_window |-> c.active_window,
        buffer |-> m.buffer, len |-> m.len, ret |-> c.ret,
        strays |-> w.strays]

\* desktop_init
desktop_init(ws, aw, buf, len, lay) ==
    LET cleared == [i \in WinIdx |-> [ws[i] EXCEPT !.active = 0]]
    IN OpenTextWindow(cleared, aw, buf, len, lay,
                      "Welcome to OpenComp", DeskWelcomeText)

\* the command words of handle_command as character codes
WordHelp == <<104, 101, 108, 112>>

WordAbout == <<97, 98, 111, 117, 116>>

WordMem == <<109, 101, 109>>

WordClear == <<99, 108, 101, 97, 114>>

\* the comparison chains of handle_command: the buffer starts with the word
StartsWith(buf, word) == \A k \in 1 .. Len(word) : buf[k - 1] = word[k]

\* handle_command whose clear branch closes the windows and leaves
\* active_window alone
handle_command_KeepsActive(ws, aw, buf, len, lay) ==
    IF len = 0
    THEN [windows |-> ws, active_window |-> aw, buffer |-> buf, len |-> len,
          ret |-> -1, strays |-> <<>>, op |-> "empty", over |-> FALSE]
    ELSE LET b == IF len < COMMAND_SIZE THEN [buf EXCEPT ![len] = 0] ELSE buf
             open(title, text, op) ==
                 LET r == OpenTextWindow(ws, aw, b, len, lay, title, text) IN
                 [windows |-> r.windows, active_window |-> r.active_window,
                  buffer |-> r.buffer, len |-> 0, ret |-> r.ret,
                  strays |-> r.strays, op |-> op,
                  over |-> len >= COMMAND_SIZE]
         IN IF StartsWith(b, WordHelp) THEN open("Help", DeskHelpText, "help")
            ELSE IF StartsWith(b, WordAbout)
            THEN open("About", DeskAboutText, "about")
            ELSE IF StartsWith(b, WordMem)
            THEN open("Memory", DeskMemText, "mem")
            ELSE IF StartsWith(b, WordClear)
            THEN [windows |-> [i \in WinIdx |-> [ws[i] EXCEPT !.active = 0]],
                  active_window |-> aw, buffer |-> b, len |-> 0,
                  ret |-> -1, strays |-> <<>>, op |-> "clear",
                  over |-> len >= COMMAND_SIZE]
            ELSE [windows |-> ws, active_window |-> aw, buffer |-> b,
                  len |-> 0, ret |-> -1, strays |-> <<>>, op |-> "unknown",
                  over |-> len >= COMMAND_SIZE]

\* handle_command that resets command_len only after a command it knows
handle_command_KeepsLine(ws, aw, buf, len, lay) ==
    IF len = 0
    THEN [windows |-> ws, active_window |-> aw, buffer |-> buf, len |-> len,
          ret |-> -1, strays |-> <<>>, op |-> "empty", over |-> FALSE]
    ELSE LET b == IF len < COMMAND_SIZE THEN [buf EXCEPT ![len] = 0] ELSE buf
             open(title, text, op) ==
                 LET r == OpenTextWindow(ws, aw, b, len, lay, title, text) IN
                 [windows |-> r.windows, active_window |-> r.active_window,
                  buffer |-> r.buffer, len |-> 0, ret |-> r.ret,
                  strays |-> r.strays, op |-> op,
                  over |-> len >= COMMAND_SIZE]
         IN IF StartsWith(b, WordHelp) THEN open("Help", DeskHelpText, "help")
            ELSE IF StartsWith(b, WordAbout)
            THEN open("About", DeskAboutText, "about")
            ELSE IF StartsWith(b, WordMem)
            THEN open("Memory", DeskMemText, "mem")
            ELSE IF StartsWith(b, WordClear)
            THEN [windows |-> [i \in WinIdx |-> [ws[i] EXCEPT !.active = 0]],
                  active_window |-> -1, buffer |-> b, len |-> 0,
                  ret |-> -1, strays |-> <<>>, op |-> "clear",
                  over |-> len >= COMMAND_SIZE]
            ELSE [windows |-> ws, active_window |-> aw, buffer |-> b,
                  len |-> len, ret |-> -1, strays |-> <<>>, op |-> "unknown",
                  over |-> len >= COMMAND_SIZE]

\* handle_command.  The NUL is stored at command_buffer[command_len]; over
\* tells that command_len was beyond the buffer, so that this store lay
\* beyond its end.
handle_command(ws, aw, buf, len, lay) ==
    IF len = 0
    THEN [windows |-> ws, active_window |-> aw, buffer |-> buf, len |-> len,
          ret |-> -1, strays |-> <<>>, op |-> "empty", over |-> FALSE]
    ELSE LET b == IF len < COMMAND_SIZE THEN [buf EXCEPT ![len] = 0] ELSE buf
             open(title, text, op) ==
                 LET r == OpenTextWindow(ws, aw, b, len, lay, title, text) IN
                 [windows |-> r.windows, active_window |-> r.active_window,
                  buffer |-> r.buffer, len |-> 0, ret |-> r.ret,
                  strays |-> r.strays, op |-> op,
                  over |-> len >= COMMAND_SIZE]
         IN IF StartsWith(b, WordHelp) THEN open("Help", DeskHelpText, "help")
            ELSE IF StartsWith(b, WordAbout)
            THEN open("About", DeskAboutText, "about")
            ELSE IF StartsWith(b, WordMem)
            THEN open("Memory", DeskMemText, "mem")
            ELSE IF StartsWith(b, WordClear)
            THEN [windows |-> [i \in WinIdx |-> [ws[i] EXCEPT !.active = 0]],
                  active_window |-> -1, buffer |-> b, len |-> 0,
                  ret |-> -1, strays |-> <<>>, op |-> "clear",
                  over |-> len >= COMMAND_SIZE]
            ELSE [windows |-> ws, active_window |-> aw, buffer |-> b,
                  len |-> 0, ret |-> -1, strays |-> <<>>, op |-> "unknown",
                  over |-> len >= COMMAND_SIZE]

\* the arrays indexed beyond their end by a step with these stray stores
Strayed(strays, over) ==
    (IF strays # <<>> THEN {"windows"} ELSE {})
        \cup (IF over THEN {"command_buffer"} ELSE {})

(***************************************************************************)
(* SpecWin: create_window of either desktop called by any caller on the    *)
(* window table, and windows closed in any order.                          *)
(***************************************************************************)
WinTitles == {"Help", "About"}

InitWin ==
    /\ AllocStatics
    /\ DevStatics
    /\ table = <<>>
    /\ pc = "boot"
    /\ it = 1
    /\ p = 1
    /\ events = <<>>
    /\ tickLog = <<>>

Call_create_window ==
    \E title \in WinTitles :
        LET r == create_window(windows, active_window, title) IN
        /\ windows' = r.windows
        /\ active_window' = r.active_window
        /\ wcall' = [op |-> "create_window", title |-> title, ret |-> r.ret]
        /\ UNCHANGED <<needs_redraw, gpc, tab_start>>
        /\ UNCHANGED <<mouseVars, allocVars, kernVars, deskVars, kbdVars>>

Call_desktop_create_window ==
    \E title \in WinTitles :
        LET r == desktop_create_window(windows, active_window, title) IN
        /\ windows' = r.windows
        /\ active_window' = r.active_window
        /\ wcall' = [op |-> "desktop_create_window", title |-> title,
                     ret |-> r.ret]
        /\ UNCHANGED <<needs_redraw, gpc, tab_start>>
        /\ UNCHANGED <<mouseVars, allocVars, kernVars, deskVars, kbdVars>>

Call_close_window ==
    \E i \in WinIdx :
        /\ windows[i].active # 0
        /\ LET r == CloseWindow(windows, i) IN
           /\ windows' = r.windows
           /\ active_window' = r.active_window
        /\ wcall' = [op |-> "close", title |-> "", ret |-> i]
        /\ UNCHANGED <<needs_redraw, gpc, tab_start>>
        /\ UNCHANGED <<mouseVars, allocVars, kernVars, deskVars, kbdVars>>

\* texts handed to set_window_content: a window text, a single character,
\* and a text longer than a content array
SetContentTexts ==
    {DeskHelpText, <<72>>, [k \in 1 .. (CONTENT_SIZE + 1) |-> 65]}

Call_desktop_set_window_content ==
    \E idx \in -1 .. MAX_WINDOWS, text \in SetContentTexts :
        LET r == desktop_set_window_content(windows, idx, text)
            m == StrayStores(command_buffer, command_len, layout, r.strays)
        IN /\ windows' = r.windows
           /\ command_buffer' = m.buffer
           /\ command_len' = m.len
           /\ stray' = stray \cup Strayed(r.strays, FALSE)
           /\ wcall' = [op |-> "desktop_set_window_content", title |-> "",
                        ret |-> idx]
           /\ UNCHANGED <<active_window, needs_redraw, gpc, tab_start>>
           /\ UNCHANGED <<layout, dcall, typing>>
           /\ UNCHANGED <<mouseVars, allocVars, kernVars, kbdVars>>

NextWin ==
    \/ Call_create_window
    \/ Call_desktop_create_window
    \/ Call_close_window
    \/ Call_desktop_set_window_content

SpecWin == InitWin /\ [][NextWin]_vars

(***************************************************************************)
(* SpecDesk: the kernel's tick loop over the keyboard component and the    *)
(* text desktop, in either table order, in a kernel linked with any of the *)
(* layouts.  gpc is "init" before desktop_init, "keyboard" when            *)
(* keyboard_tick is next and "desktop" when desktop_tick is next.  The     *)
(* user types command words, each key when the controller delivers it.     *)
(***************************************************************************)
\* scancodes of Enter and Backspace, and the words typed: clear and mem,
\* each followed by Enter, Enter alone, 'c' taken back with one Backspace
\* more than needed, and a line of one 'c' more than command_buffer takes
KeyEnter == 28

KeyBackspace == 14

TypedWords ==
    {<<46, 38, 18, 30, 19, KeyEnter>>, <<50, 18, 50, KeyEnter>>,
     <<KeyEnter>>, <<46, KeyBackspace, KeyBackspace>>,
     [k \in 1 .. (COMMAND_SIZE + 1) |->
         IF k <= COMMAND_SIZE THEN 46 ELSE KeyEnter]}

InitDesk ==
    /\ AllocStatics
    /\ \E lay \in Layouts : DevStaticsAt(lay)
    /\ table = <<>>
    /\ pc = "boot"
    /\ it = 1
    /\ p = 1
    /\ events = <<>>
    /\ tickLog = <<>>

ActiveCount(ws) == Cardinality({i \in WinIdx : ws[i].active # 0})

\* the init phase: desktop_init (keyboard_init only writes a line)
Desk_init ==
    /\ gpc = "init"
    /\ LET r == desktop_init(windows, active_window, command_buffer,
                             command_len, layout)
       IN /\ windows' = r.windows
          /\ active_window' = r.active_window
          /\ command_buffer' = r.buffer
          /\ command_len' = r.len
          /\ stray' = stray \cup Strayed(r.strays, FALSE)
          /\ dcall' = [op |-> "init", ret |-> r.ret, was |-> 0]
    /\ gpc' \in {"keyboard", "desktop"}
    /\ UNCHANGED <<needs_redraw, tab_start, wcall, layout, typing>>
    /\ UNCHANGED <<mouseVars, allocVars, kernVars, kbdVars>>

\* keyboard_tick: the controller has no byte, or the next key of the word
\* being typed, or the first key of a new word
Desk_keyboard_tick ==
    /\ gpc = "keyboard"
    /\ \/ /\ Do_keyboard_tick(0, 0)
          /\ typing' = typing
       \/ /\ typing # <<>>
          /\ Do_keyboard_tick(1, Head(typing))
          /\ typing' = Tail(typing)
       \/ /\ typing = <<>>
          /\ \E w \in TypedWords :
                 /\ Do_keyboard_tick(1, Head(w))
                 /\ typing' = Tail(w)
    /\ gpc' = "desktop"
    /\ UNCHANGED <<windows, active_window, needs_redraw, tab_start, wcall>>
    /\ UNCHANGED <<command_buffer, command_len, layout, stray, dcall>>
    /\ UNCHANGED <<mouseVars, allocVars, kernVars>>

\* desktop_tick: the key handling (the redraw only reads)
desktop_tick ==
    /\ gpc = "desktop"
    /\ IF ~keyboard_has_key(key_read_pos, key_write_pos)
       THEN /\ UNCHANGED kbdVars
            /\ UNCHANGED <<windows, active_window, command_buffer,
                           command_len, stray>>
            /\ dcall' = [op |-> "idle", ret |-> -1,
                         was |-> ActiveCount(windows)]
       ELSE /\ Do_keyboard_get_key
            /\ LET c == key_buffer[key_read_pos] IN
               IF c = 10
               THEN LET r == handle_command(windows, active_window,
                                            command_buffer, command_len,
                                            layout)
                    IN /\ windows' = r.windows
                       /\ active_window' = r.active_window
                       /\ command_buffer' = r.buffer
                       /\ command_len' = r.len
                       /\ stray' = stray \cup Strayed(r.strays, r.over)
                       /\ dcall' = [op |-> r.op, ret |-> r.ret,
                                    was |-> ActiveCount(windows)]
               ELSE IF c = 8
               THEN /\ command_len' = IF command_len > 0
                                      THEN command_len - 1 ELSE command_len
                    /\ dcall' = [op |-> "backspace", ret |-> -1,
                                 was |-> ActiveCount(windows)]
                    /\ UNCHANGED <<windows, active_window, command_buffer,
                                   stray>>
               ELSE IF command_len < COMMAND_SIZE - 1
               THEN /\ command_buffer' =
                           [command_buffer EXCEPT ![command_len] = c]
                    /\ command_len' = command_len + 1
                    /\ dcall' = [op |-> "char", ret |-> -1,
                                 was |-> ActiveCount(windows)]
                    /\ UNCHANGED <<windows, active_window, stray>>
               ELSE /\ dcall' = [op |-> "dropped", ret |-> -1,
                                 was |-> ActiveCount(windows)]
                    /\ UNCHANGED <<windows, active_window, command_buffer,
                                   command_len, stray>>
    /\ gpc' = "keyboard"
    /\ UNCHANGED <<needs_redraw, tab_start, wcall, layout, typing>>
    /\ UNCHANGED <<mouseVars, allocVars, kernVars>>

NextDesk ==
    \/ Desk_init
    \/ Desk_keyboard_tick
    \/ desktop_tick

SpecDesk == InitDesk /\ [][NextDesk]_vars

(***************************************************************************)
(* SpecInput: the kernels the repository builds around the keyboard: the   *)
(* tick loop over the keyboard component and one desktop component, the    *)
(* graphical one (gui_desktop.c) or the text one (desktop.c), in either    *)
(* table order.  Which desktop is linked in is decided by the init that    *)
(* runs: dcall.op is "none" for as long as desktop.c has not run.          *)
(***************************************************************************)
GuiLinked == dcall.op = "none"

NextInput ==
    \/ Gui_init
    \/ Desk_init
    \/ GuiLinked /\ Gui_keyboard_tick
    \/ GuiLinked /\ gui_desktop_tick
    \/ GuiLinked /\ handle_keyboard_TabLoop
    \/ ~GuiLinked /\ Desk_keyboard_tick
    \/ ~GuiLinked /\ desktop_tick

SpecInput == InitDesk /\ [][NextInput]_vars

(***************************************************************************)
(* Vocabulary of the properties.                                           *)
(***************************************************************************)
Range(s) == {s[k] : k \in 1 .. Len(s)}

Indices(t) == [i \in 1 .. Len(t) |-> i]

\* a descriptor (a non-null entry) whose init, respectively tick, is present
HasInit(c) == c.ptr /\ c.init # "absent"

HasTick(c) == c.ptr /\ c.tick # "absent"

\* the indices of the inits invoked so far, in order of invocation
InitCalls ==
    LET IsInit(e) == e[1] = "init"
        inits == SelectSeq(events, IsInit)
    IN [k \in 1 .. Len(inits) |-> inits[k][2]]

\* table order restricted to the descriptors with a present init
InitOrder ==
    LET Sel(i) == HasInit(table[i]) IN SelectSeq(Indices(table), Sel)

\* table order restricted to the descriptors below index n with a present tick
TicksBefore(n) ==
    LET Sel(i) == i < n /\ HasTick(table[i]) IN SelectSeq(Indices(table), Sel)

Count(s, x) == Cardinality({k \in 1 .. Len(s) : s[k] = x})

\* number of pages whose bit is set
UsedCount(bm) == Cardinality({i \in Pages : bm[i] = 1})

Running == pc \in {"pass", "delay"}

Phase(pcv) ==
    IF pcv = "boot" THEN "Uninitialized"
    ELSE IF pcv \in {"register", "initloop", "entering"} THEN "Initializing"
    ELSE IF pcv \in {"pass", "delay"} THEN "Running"
    ELSE "Returned"

(***************************************************************************)
(* Allocator properties (SpecAlloc).                                       *)
(***************************************************************************)
\* C1: in every state reachable by kalloc_page and kfree_page calls (any
\* addresses, repeated frees included), get_free_pages() plus the number of
\* pages whose bit is set equals TOTAL_PAGES.
C1_FreeCounterInvariant ==
    get_free_pages(free_pages) + UsedCount(page_bitmap) = TOTAL_PAGES

\* C3: from an all-Free state, TOTAL_PAGES consecutive kalloc_page calls
\* return pairwise distinct, non-overlapping page addresses of the arena, and
\* the call after them returns NULL.
C3_Exhaustion ==
    \A k \in 1 .. Len(allocRun) :
        IF k <= TOTAL_PAGES
        THEN /\ allocRun[k] \in PageAddrs
             /\ \A j \in 1 .. (k - 1) :
                    \/ allocRun[j] - allocRun[k] >= PAGE_SIZE
                    \/ allocRun[k] - allocRun[j] >= PAGE_SIZE
        ELSE allocRun[k] = NULL

C3_Witness == Len(allocRun) = TOTAL_PAGES + 1

\* C10: whenever a page is Free, kalloc_page returns the address of the
\* lowest-index Free page, changes exactly that page from Free to Used and
\* decrements the free counter by exactly 1 (in the counter's unsigned
\* arithmetic: from 0 the decrement wraps).
C10_FirstFit ==
    [][(call'.op = "kalloc" /\ ~(\A i \in Pages : page_bitmap[i] = 1)) =>
        LET i == CHOOSE k \in Pages :
                     /\ page_bitmap[k] = 0
                     /\ \A j \in 0 .. (k - 1) : page_bitmap[j] = 1
        IN /\ call'.ret = base_address + i * PAGE_SIZE
           /\ page_bitmap'[i] = 1
           /\ \A j \in Pages \ {i} : page_bitmap'[j] = page_bitmap[j]
           /\ free_pages' = (IF free_pages > 0 THEN free_pages - 1
                              ELSE WordModulus - 1)
      ]_vars

\* page 1 was a hole between two used pages and kalloc_page has just filled it
C10_Witness ==
    /\ call.op = "kalloc"
    /\ call.ret = PageAddr(1)
    /\ page_bitmap[0] = 1
    /\ page_bitmap[TOTAL_PAGES - 1] = 1

(***************************************************************************)
(* Registry and scheduler properties (Spec, FairSpec).                     *)
(***************************************************************************)
\* C2: kalloc_page never returns the address of a page that an earlier
\* kalloc_page returned and that has not since been passed to kfree_page,
\* whatever the position of the memory component in the table.
C2_NoDoubleOwner ==
    [][(call'.op = "kalloc" /\ call'.ret # NULL) => call'.ret \notin held]_vars

\* C4: the init invocations of register_components_and_init are exactly the
\* table-order sequence of the descriptors whose init is present.
C4_InitOrder ==
    (pc \in {"entering", "pass", "delay"}) => InitCalls = InitOrder

\* C5: the ticks are a concatenation of passes; a pass ticks each descriptor
\* with a present tick exactly once, in table order, and the next pass starts
\* only after the last tick of the pass before it.
C5_Passes ==
    /\ [](IF Running THEN tickLog = TicksBefore(p) ELSE tickLog = <<>>)
    /\ [][(Running /\ pc' = "pass" /\ p' = 1) =>
            /\ pc = "delay"
            /\ tickLog = TicksBefore(Len(table) + 1)
            /\ tickLog' = <<>>
         ]_vars

\* a complete pass over a table in which some entry was skipped
C5_Witness ==
    /\ pc = "delay"
    /\ Len(tickLog) >= 2
    /\ Len(tickLog) < Len(table)

\* C6: every descriptor whose init is present has its init invoked exactly
\* once over the run of kernel_main, and every init precedes the first tick.
C6_InitOnceBeforeTicks ==
    /\ Running =>
          \A i \in 1 .. Len(table) :
              Count(InitCalls, i) = (IF HasInit(table[i]) THEN 1 ELSE 0)
    /\ ~Running => tickLog = <<>>

\* C7: when every handler returns and the delay completes, every descriptor
\* with a present tick is ticked in infinitely many passes.
C7_NoStarvation ==
    /\ []<>(pc = "pass" /\ p = 1 /\ tickLog = <<>>)
    /\ \A i \in 1 .. MaxComps :
          []<>((i <= Len(table) /\ HasTick(table[i])) =>
                  (pc = "delay" /\ i \in Range(tickLog)))

\* the only component has been ticked in at least two passes: it holds one
\* page from its init and one more from each of two ticks
C7_Witness ==
    /\ table = <<client_component>>
    /\ Cardinality(held) >= 3

\* C8: kernel_main never returns: Initializing runs once, Running follows and
\* is never left.
C8_NeverReturns ==
    /\ [][\/ Phase(pc') = Phase(pc)
          \/ Phase(pc) = "Uninitialized" /\ Phase(pc') = "Initializing"
          \/ Phase(pc) = "Initializing" /\ Phase(pc') = "Running"
         ]_vars
    /\ <>[]Running

\* Running after the busy-wait of one pass and three ticks into the next
C8_Witness ==
    /\ pc = "pass"
    /\ Len(table) = 3
    /\ p = 4
    /\ Cardinality(held) >= 2
    /\ table[1] = client_component
    /\ ~HasTick(table[2])
    /\ ~HasTick(table[3])

\* C9: an empty table gives exactly one "no components" notification and no
\* init; Running follows, every pass invokes no tick, and the loop goes on
\* forever.
C9_EmptyTable ==
    (table = <<>>) =>
        /\ [](/\ InitCalls = <<>>
              /\ tickLog = <<>>
              /\ Count(events, <<"nocomps", 0>>) <= 1
              /\ pc \in {"entering", "pass", "delay"} =>
                     Count(events, <<"nocomps", 0>>) = 1)
        /\ []<>(pc = "delay")
        /\ []<>(pc = "pass")

C9_Witness ==
    /\ table = <<>>
    /\ pc = "delay"
    /\ events = <<<<"welcome", 0>>, <<"nocomps", 0>>, <<"entering", 0>>>>

(***************************************************************************)
(* Allocator contract: zeroing, reuse, exhaustion, bad frees, reset.       *)
(***************************************************************************)
\* C11: immediately after a successful kalloc_page every byte of the returned
\* page reads as zero, whatever the page held before: the content of RAM at
\* boot, or what a previous owner wrote before the page was freed.
C11_ZeroOnAllocate ==
    (call.op \in {"kalloc", "kfree_kalloc"} /\ call.ret # NULL) =>
        page_mem[(call.ret - base_address) \div PAGE_SIZE] = 0

\* page 1 held what a previous owner had written when it was handed out again
C11_Witness ==
    /\ call.op = "kalloc"
    /\ call.ret = PageAddr(1)
    /\ call.was = 2
    /\ page_mem[1] = 0

\* C12 as stated: in any allocator state, kfree_page of the address of page i
\* followed by one kalloc_page returns the address of page i.
C12_ReuseAnyState ==
    (call.op = "kfree_kalloc") => call.ret = call.arg

\* C12, amended: when every page with an index below i is Used, kfree_page of
\* the address of page i followed by one kalloc_page returns the address of
\* page i.
C12_ReuseLowestHole ==
    [][(/\ call'.op = "kfree_kalloc"
        /\ \A j \in Pages :
               j < (call'.arg - base_address) \div PAGE_SIZE =>
                   page_bitmap[j] = 1)
       => call'.ret = call'.arg]_vars

\* page 1 was freed and came back while page 0 was Used and a higher page Free
C12_Witness ==
    /\ call.op = "kfree_kalloc"
    /\ call.arg = PageAddr(1)
    /\ call.ret = PageAddr(1)
    /\ page_bitmap[0] = 1
    /\ page_bitmap[TOTAL_PAGES - 1] = 0

\* C13: when every page is Used, kalloc_page returns NULL and leaves the
\* bitmap and the free counter unchanged; the scheduler goes on: a new pass
\* starts after the failed call, and every pass that starts ticks every
\* descriptor with a present tick.
C13_ExhaustionNotFatal ==
    /\ [][(call'.op = "kalloc" /\ \A i \in Pages : page_bitmap[i] = 1) =>
            /\ call'.ret = NULL
            /\ page_bitmap' = page_bitmap
            /\ free_pages' = free_pages
         ]_vars
    /\ (call.op = "kalloc" /\ call.ret = NULL) ~>
           (pc = "pass" /\ p = 1 /\ tickLog = <<>>)
    /\ (pc = "pass" /\ p = 1) ~>
           (pc = "delay" /\ tickLog = TicksBefore(Len(table) + 1))

\* a tick has just been refused a page: every page is held
C13_Witness ==
    /\ pc = "pass"
    /\ call.op = "kalloc"
    /\ call.ret = NULL
    /\ Cardinality(held) = TOTAL_PAGES
    /\ Len(table) >= 2

\* C14: kfree_page of an address below base_address or at or beyond the end
\* of the arena (the addresses whose unsigned index is not below TOTAL_PAGES)
\* leaves the bitmap and the free counter unchanged.
C14_OutOfRangeFree ==
    [][(/\ call'.op = "kfree"
        /\ \/ call'.arg < base_address
           \/ call'.arg >= base_address + TOTAL_PAGES * PAGE_SIZE)
       => (page_bitmap' = page_bitmap /\ free_pages' = free_pages)]_vars

\* the address just below the arena was freed while every page was Used
C14_Witness ==
    /\ call.op = "kfree"
    /\ call.arg = base_address - 1
    /\ UsedCount(page_bitmap) = TOTAL_PAGES
    /\ free_pages = 0

\* C15: when memory_init has just completed, every page is Free and
\* get_free_pages() equals TOTAL_PAGES, whatever allocator calls the
\* components initialized earlier made.
C15_InitResetsAllocator ==
    (call.op = "memory_init") =>
        /\ AllFree(page_bitmap)
        /\ get_free_pages(free_pages) = TOTAL_PAGES

\* C16: a second kfree_page of the same in-range page, already Free after the
\* first, leaves the bitmap and the free counter as the first call left them.
C16_DoubleFreeHarmless ==
    [][(/\ call.op = "kfree"
        /\ call.arg \in PageAddrs
        /\ call'.op = "kfree"
        /\ call'.arg = call.arg)
       => (page_bitmap' = page_bitmap /\ free_pages' = free_pages)]_vars

(***************************************************************************)
(* Skipped entries (SpecShapes).                                           *)
(***************************************************************************)
\* C17: a null entry and a descriptor whose init (respectively tick) is
\* absent are skipped: nothing is invoked for them in the init phase
\* (respectively in a pass), the named descriptor after them is handled as
\* usual, and the other handler of the descriptor, when present, is still
\* invoked.
C17_AbsentSkipped ==
    /\ \A i \in 1 .. Len(table) :
           /\ ~HasInit(table[i]) => Count(InitCalls, i) = 0
           /\ ~HasTick(table[i]) => i \notin Range(tickLog)
    /\ Running =>
           \A i \in 1 .. Len(table) :
               /\ (HasInit(table[i]) /\ ~HasTick(table[i])) =>
                      Count(InitCalls, i) = 1
               /\ (i > 1 /\ ~HasInit(table[i - 1]) /\
                   HasInit(table[i]) /\ table[i].name) =>
                      Count(InitCalls, i) = 1
    /\ pc = "delay" =>
           \A i \in 1 .. Len(table) :
               /\ (HasTick(table[i]) /\ ~HasInit(table[i])) =>
                      Count(tickLog, i) = 1
               /\ (i > 1 /\ ~HasTick(table[i - 1]) /\ HasTick(table[i])) =>
                      Count(tickLog, i) = 1

(***************************************************************************)
(* Keyboard ring (SpecKbd).                                                *)
(***************************************************************************)
\* the characters in the ring between key_read_pos and key_write_pos
RingContent ==
    LET n == (key_write_pos - key_read_pos + KEY_BUFFER_SIZE)
                 % KEY_BUFFER_SIZE
    IN [k \in 1 .. n |-> key_buffer[(key_read_pos + k - 1) % KEY_BUFFER_SIZE]]

\* C19: the ring is FIFO: keyboard_get_key returns the characters in the
\* order keyboard_tick stored them, each once (the ring between the two
\* positions is always the sequence of stored and not yet returned
\* characters, and a read returns and removes its first), and
\* keyboard_has_key is true exactly when that sequence is not empty.
C19_Fifo ==
    /\ [](RingContent = unread)
    /\ [](keyboard_has_key(key_read_pos, key_write_pos) <=> unread # <<>>)
    /\ [][(kcall'.op = "get_key") =>
            IF unread = <<>>
            THEN kcall'.ret = 0 /\ unread' = <<>>
            ELSE kcall'.ret = Head(unread) /\ unread' = Tail(unread)
         ]_vars

\* 'x' was stored before 'h' and has just been returned, 'h' is still unread,
\* and the write position has wrapped around the end of the ring
C19_Witness ==
    /\ kcall.op = "get_key"
    /\ kcall.ret = 120
    /\ unread = <<104>>
    /\ key_write_pos < key_read_pos

(***************************************************************************)
(* Desktop properties (FairSpecGui, SpecWin).                              *)
(***************************************************************************)
\* C18: every invocation of gui_desktop_tick returns, for every pending key
\* and every window state: in particular the Tab loop of handle_keyboard
\* terminates, and the kernel goes on to the next component.
C18_TickReturns == (gpc \in {"gui", "tab"}) ~> (gpc = "keyboard")

\* C20: create_window takes the lowest-index inactive slot (activates it,
\* stores the title, empties the content, leaves every other slot alone) and
\* returns its index; when every slot is active it returns -1 and changes
\* no slot and not active_window.
C20_CreateWindow ==
    [][(wcall'.op \in {"create_window", "desktop_create_window"}) =>
        LET free == {i \in WinIdx : windows[i].active = 0} IN
        IF free = {}
        THEN /\ wcall'.ret = -1
             /\ windows' = windows
             /\ active_window' = active_window
        ELSE LET i == CHOOSE k \in free : \A j \in free : k <= j IN
             /\ wcall'.ret = i
             /\ windows'[i].active = 1
             /\ windows'[i].title = wcall'.title
             /\ windows'[i].content[0] = 0
             /\ \A k \in ContentIdx \ {0} :
                    windows'[i].content[k] = windows[i].content[k]
             /\ \A j \in WinIdx \ {i} : windows'[j] = windows[j]
             /\ Cardinality({j \in WinIdx : windows'[j].active = 1})
                    <= MAX_WINDOWS
      ]_vars

\* create_window has just been refused: every slot is active
C20_Witness ==
    /\ wcall.op = "create_window"
    /\ wcall.ret = -1
    /\ \A i \in WinIdx : windows[i].active = 1

(***************************************************************************)
(* Allocator round trip (SpecAlloc).                                       *)
(***************************************************************************)
\* C27: from any state in which some page is Free, kalloc_page followed
\* immediately by kfree_page of the returned address restores the bitmap and
\* the free counter to their values before the allocation.
C27_AllocFreeRoundTrip ==
    [][(call'.op = "kalloc_kfree" /\ \E i \in Pages : page_bitmap[i] = 0) =>
        /\ call'.ret # NULL
        /\ page_bitmap' = page_bitmap
        /\ free_pages' = free_pages
      ]_vars

\* the round trip went through page 1, a hole above a Used page, at a moment
\* when the counter had been driven above TOTAL_PAGES
C27_Witness ==
    /\ call.op = "kalloc_kfree"
    /\ call.ret = PageAddr(1)
    /\ page_bitmap[0] = 1
    /\ page_bitmap[1] = 0
    /\ free_pages > TOTAL_PAGES

(***************************************************************************)
(* Registry and scheduler: selection tests, entry order, status lines,     *)
(* busy-wait (Spec, SpecShapes).                                           *)
(***************************************************************************)
\* a descriptor whose name pointer is null
Nameless(c) == c.ptr /\ ~c.name

\* the indices reported by status lines so far, in order
StatusLines ==
    LET IsStatus(e) == e[1] = "status"
        lines == SelectSeq(events, IsStatus)
    IN [k \in 1 .. Len(lines) |-> lines[k][2]]

\* C23: a non-null descriptor whose name pointer is null gets no status line
\* and no init call from register_components_and_init, even when its init is
\* present, yet its tick, when present, is invoked in every pass of
\* kernel_main_loop.
C23_NamelessInitVsTick ==
    \A i \in 1 .. Len(table) :
        Nameless(table[i]) =>
            /\ <<"status", i>> \notin Range(events)
            /\ <<"init", i>> \notin Range(events)
            /\ (pc = "delay" /\ table[i].tick # "absent") =>
                   Count(tickLog, i) = 1
            /\ (pc = "pass" /\ table[i].tick # "absent") =>
                   Count(tickLog, i) = (IF i < p THEN 1 ELSE 0)

\* a pass has ended over a table whose first descriptor is nameless with init
\* and tick present and whose second descriptor is named and was initialized
C23_Witness ==
    /\ pc = "delay"
    /\ Len(table) = 2
    /\ Nameless(table[1])
    /\ table[1].init = "plain"
    /\ table[2].name
    /\ tickLog = <<1, 2>>
    /\ InitCalls = <<2>>

\* C24: kernel_main clears the display, then initializes all components,
\* then enters the tick loop: no init runs before the display has been
\* cleared and no tick runs before initialization has finished.
C24_EntryOrder ==
    /\ (InitCalls # <<>> \/ Phase(pc) \in {"Running"}) =>
           \E k \in 1 .. Len(events) :
               /\ events[k] = <<"clear", 0>>
               /\ \A j \in 1 .. (k - 1) : events[j][1] # "init"
    /\ (Phase(pc) # "Running") => tickLog = <<>>

\* C25: during Initializing exactly one status line is written for each
\* component of the table, in table order and immediately before that
\* component's init, also for a component whose init is absent; once Running
\* has begun no status line is written.
C25_StatusLines ==
    /\ [](Running =>
            StatusLines =
                SelectSeq(Indices(table), LAMBDA i : table[i].ptr))
    /\ [](\A k \in 1 .. Len(events) :
            events[k][1] = "init" =>
                /\ k > 1
                /\ events[k - 1] = <<"status", events[k][2]>>)
    /\ [][Running => events' = events]_vars

\* C26: in Running the busy-wait is performed exactly once after each full
\* pass over the table and never between two ticks of the same pass; between
\* two consecutive ticks of the same component exactly one delay occurs; with
\* an empty table each pass consists of the delay alone.
C26_DelayPerPass ==
    /\ [][(pc' = "delay" /\ pc # "delay") =>
            /\ pc = "pass"
            /\ p > Len(table)
            /\ tickLog = TicksBefore(Len(table) + 1)
            /\ tickLog' = tickLog
         ]_vars
    /\ [][(pc = "delay" /\ pc' # "delay") =>
            /\ pc' = "pass"
            /\ p' = 1
            /\ tickLog' = <<>>
         ]_vars
    /\ [][(Running /\ tickLog' # tickLog /\ tickLog' # <<>>) =>
            /\ pc = "pass"
            /\ pc' = "pass"
            /\ \E i \in 1 .. Len(table) :
                   /\ tickLog' = Append(tickLog, i)
                   /\ i \notin Range(tickLog)
         ]_vars
    /\ [][(table = <<>> /\ pc = "pass") => (pc' = "delay" /\ tickLog' = <<>>)
         ]_vars

\* the delay after the second pass or a later one: the client holds the page
\* of its init and one more from each of two ticks, and the descriptor without
\* init has been ticked after it
C26_Witness ==
    /\ pc = "delay"
    /\ table = <<client_component, NoInitComponent>>
    /\ tickLog = <<1, 2>>
    /\ Cardinality(held) = 3

(***************************************************************************)
(* Keyboard ring: capacity and dropping (SpecKbd).                         *)
(***************************************************************************)
\* the slots of the ring that hold unread characters
UnreadSlots ==
    {(key_read_pos + k) % KEY_BUFFER_SIZE : k \in 0 .. (Len(unread) - 1)}

\* C30: the ring never overwrites an unread character: both positions stay
\* within 0..KEY_BUFFER_SIZE-1, at most KEY_BUFFER_SIZE-1 characters are
\* unread, and a character arriving when KEY_BUFFER_SIZE-1 are unread is
\* dropped, leaving the unread characters and both positions unchanged.
C30_NoOverwrite ==
    /\ [](/\ key_read_pos \in 0 .. (KEY_BUFFER_SIZE - 1)
          /\ key_write_pos \in 0 .. (KEY_BUFFER_SIZE - 1)
          /\ Len(unread) <= KEY_BUFFER_SIZE - 1)
    /\ [][(kcall'.op = "tick") =>
            \A i \in UnreadSlots : key_buffer'[i] = key_buffer[i]]_vars
    /\ [][(kcall'.op = "tick" /\ Len(unread) = KEY_BUFFER_SIZE - 1) =>
            /\ unread' = unread
            /\ key_read_pos' = key_read_pos
            /\ key_write_pos' = key_write_pos
            /\ key_buffer' = key_buffer
         ]_vars

\* 'h' arrived while the ring was full of other characters and is not among
\* the unread ones
C30_Witness ==
    /\ kcall.op = "tick"
    /\ kcall.ret = 104
    /\ Len(unread) = KEY_BUFFER_SIZE - 1
    /\ 104 \notin Range(unread)
    /\ key_write_pos < key_read_pos

(***************************************************************************)
(* Graphical desktop: the active window (SpecGui).                         *)
(***************************************************************************)
ActiveSlots == {i \in WinIdx : windows[i].active # 0}

\* C29: in every reachable state of the graphical desktop active_window is -1
\* exactly when no window is active and otherwise the index of an active
\* window, after any sequence of creations, Tab presses and X closes; after X
\* closes the active window, active_window is the lowest-index remaining
\* active window.  While the Tab search runs over several windows it passes
\* inactive slots; that is not held against the claim: inside the search only
\* "no window active implies active_window = -1" is required.
C29_ActiveWindow ==
    /\ [](ActiveSlots = {} => active_window = -1)
    /\ [](gpc # "tab" =>
            /\ active_window = -1 => ActiveSlots = {}
            /\ active_window # -1 => active_window \in ActiveSlots)
    /\ [][(gpc = "gui" /\ gpc' = "keyboard" /\ windows' # windows
              /\ ActiveSlots' # {} /\ Cardinality(ActiveSlots') <
                                          Cardinality(ActiveSlots)) =>
            /\ active_window' \in ActiveSlots'
            /\ \A j \in ActiveSlots' : active_window' <= j
         ]_vars

(***************************************************************************)
(* End-to-end scenario (SpecConsumer).                                     *)
(***************************************************************************)
\* C22: with a table holding one allocator-consumer component whose init
\* allocates 2 pages and whose tick frees 1 page on every 100th tick, after
\* 1000 ticks get_free_pages() equals TOTAL_PAGES - 2 + floor(1000/100)
\* capped at TOTAL_PAGES - 1, and this value matches the component's own
\* bookkeeping of the pages it holds.
C22_EndToEnd ==
    (consumer_ticks = SCENARIO_TICKS) =>
        /\ get_free_pages(free_pages) =
               Min(TOTAL_PAGES - CONSUMER_PAGES
                       + (SCENARIO_TICKS \div TICK_PERIOD),
                   TOTAL_PAGES - 1)
        /\ get_free_pages(free_pages) = TOTAL_PAGES - Cardinality(held)

(***************************************************************************)
(* Text desktop (SpecDesk, SpecWin).                                       *)
(***************************************************************************)
\* the characters on the command line: command_buffer up to command_len
CommandLine ==
    [k \in 1 .. Min(command_len, COMMAND_SIZE) |-> command_buffer[k - 1]]

\* the step is desktop_tick receiving Enter
EnterProcessed ==
    /\ gpc = "desktop"
    /\ keyboard_has_key(key_read_pos, key_write_pos)
    /\ key_buffer[key_read_pos] = 10
    /\ gpc' = "keyboard"

\* C21: in the text desktop, after Enter is processed with the command
\* 'clear' on the command line, every window slot is inactive and
\* active_window is -1, whatever windows were open before; a following
\* command that opens a window then gets slot 0.
C21_ClearClosesAll ==
    /\ [][(EnterProcessed /\ CommandLine = WordClear) =>
            /\ \A i \in WinIdx : windows'[i].active = 0
            /\ active_window' = -1
            /\ command_len' = 0
         ]_vars
    /\ [][(EnterProcessed /\ CommandLine = WordMem
              /\ \A i \in WinIdx : windows[i].active = 0) =>
            /\ windows'[0].active = 1
            /\ windows'[0].title = "Memory"
            /\ active_window' = 0
         ]_vars

\* 'clear' has just closed a full window table
C21_Witness ==
    /\ dcall.op = "clear"
    /\ dcall.was = MAX_WINDOWS
    /\ \A i \in WinIdx : windows[i].active = 0
    /\ active_window = -1

\* C28: desktop.c's set_window_content(idx, s) changes nothing when idx is
\* outside 0..MAX_WINDOWS-1 or window idx is inactive; otherwise it modifies
\* only windows[idx].content (characters followed by a terminating NUL),
\* leaves every other window unchanged, and never indexes windows[] outside
\* 0..MAX_WINDOWS-1, for any content length.
C28_SetContentFrame ==
    /\ [][(wcall'.op = "desktop_set_window_content") =>
            LET idx == wcall'.ret IN
            IF idx \notin WinIdx THEN windows' = windows
            ELSE IF windows[idx].active = 0 THEN windows' = windows
            ELSE /\ \A j \in WinIdx \ {idx} : windows'[j] = windows[j]
                 /\ windows'[idx].active = windows[idx].active
                 /\ windows'[idx].title = windows[idx].title
                 /\ \E k \in ContentIdx : windows'[idx].content[k] = 0
         ]_vars
    /\ []("windows" \notin stray)

(***************************************************************************)
(* Keyboard and desktop in one kernel (SpecInput).                         *)
(***************************************************************************)
\* the number of characters in the ring that keyboard_get_key has not
\* returned, from the two positions
UnreadCount ==
    (key_write_pos - key_read_pos + KEY_BUFFER_SIZE) % KEY_BUFFER_SIZE

\* the step is a tick of the desktop component that finds a character
DesktopReads ==
    /\ gpc \in {"gui", "desktop"}
    /\ keyboard_has_key(key_read_pos, key_write_pos)

\* C31: in a kernel whose table holds the keyboard component and one desktop
\* component, each ticked once per pass in either order, at most one character
\* is unread in the key buffer in every reachable state; so no keystroke meets
\* a full buffer (every translated keystroke is stored), and the tick that
\* follows keyboard_tick is the desktop's, which takes the stored character:
\* a keystroke is delivered in the pass it was read in or in the next one.
C31_AtMostOneUnread ==
    /\ [](UnreadCount <= 1 /\ Len(unread) = UnreadCount)
    /\ [][(gpc = "keyboard") =>
            /\ gpc' \in {"gui", "desktop"}
            /\ kcall'.op = "tick"
            /\ unread = <<>>
            /\ kcall'.ret # 0 =>
                   /\ unread' = <<kcall'.ret>>
                   /\ key_buffer'[key_read_pos'] = kcall'.ret
         ]_vars
    /\ [][DesktopReads =>
            /\ kcall'.op = "get_key"
            /\ kcall'.ret = Head(unread)
            /\ unread' = <<>>
            /\ ~keyboard_has_key(key_read_pos', key_write_pos')
         ]_vars

\* the text desktop has just taken 'm' from the ring after the ring wrapped
C31_Witness ==
    /\ ~GuiLinked
    /\ dcall.op = "char"
    /\ kcall.op = "get_key"
    /\ kcall.ret = 109
    /\ key_read_pos = 0
    /\ key_write_pos = 0
    /\ key_buffer[KEY_BUFFER_SIZE - 1] = 109
    /\ unread = <<>>

(***************************************************************************)
(* keyboard_tick and keyboard_get_key one call at a time (SpecKbd).        *)
(***************************************************************************)
\* the latest step left the ring as it was
RingUnchanged ==
    /\ key_buffer' = key_buffer
    /\ key_read_pos' = key_read_pos
    /\ key_write_pos' = key_write_pos
    /\ unread' = unread

\* C32: keyboard_tick consumes at most one scancode per tick (the ring gains
\* at most one character) and leaves the ring buffer unchanged when no data is
\* available (bit 0 of the status byte clear), when the scancode is a release
\* code (bit 7 set), when it lies beyond the translation table, or when it
\* maps to character 0; in every other case, if the buffer is not full, it
\* enqueues exactly the mapped ASCII character.
C32_TickFrame ==
    [][(kcall'.op = "tick") =>
          LET st == kcall'.status
              sc == kcall'.scancode
          IN /\ Len(unread') <= Len(unread) + 1
             /\ key_read_pos' = key_read_pos
             /\ IF st % 2 = 0 THEN RingUnchanged
                ELSE IF (sc \div 128) % 2 = 1 THEN RingUnchanged
                ELSE IF sc > Len(scancode_to_ascii) - 1 THEN RingUnchanged
                ELSE IF scancode_to_ascii[sc + 1] = 0 THEN RingUnchanged
                ELSE Len(unread) < KEY_BUFFER_SIZE - 1 =>
                       /\ unread' = Append(unread, scancode_to_ascii[sc + 1])
                       /\ key_buffer' =
                              [key_buffer EXCEPT
                                  ![key_write_pos] = scancode_to_ascii[sc + 1]]
                       /\ key_write_pos' =
                              (key_write_pos + 1) % KEY_BUFFER_SIZE
      ]_vars

\* the last code of the table was just stored as a space behind an 'x'
C32_Witness ==
    /\ kcall.op = "tick"
    /\ kcall.scancode = KeySpace
    /\ unread = <<120, 32>>
    /\ key_buffer[(key_write_pos + KEY_BUFFER_SIZE - 1) % KEY_BUFFER_SIZE] = 32

\* C33: keyboard_get_key called when no character is buffered returns 0 and
\* changes neither key_read_pos nor key_write_pos (nor the buffer), so a
\* character enqueued after it lies at the read position and is the one the
\* next keyboard_get_key returns.
C33_EmptyRead ==
    /\ [](unread = <<>> <=> ~keyboard_has_key(key_read_pos, key_write_pos))
    /\ [][(kcall'.op = "get_key" /\ unread = <<>>) =>
            /\ kcall'.ret = 0
            /\ RingUnchanged
         ]_vars
    /\ [][(kcall.op = "get_key" /\ kcall.ret = 0 /\ kcall'.op = "tick"
              /\ unread' # <<>>) =>
            /\ unread' = <<kcall'.ret>>
            /\ key_buffer'[key_read_pos'] = kcall'.ret
         ]_vars
    /\ [][(kcall'.op = "get_key" /\ unread # <<>>) =>
            /\ kcall'.ret = Head(unread)
            /\ key_read_pos' = (key_read_pos + 1) % KEY_BUFFER_SIZE
         ]_vars

\* keyboard_get_key has just returned 0 from a ring that had been filled and
\* emptied before: both positions are equal and not at the start
C33_Witness ==
    /\ kcall.op = "get_key"
    /\ kcall.ret = 0
    /\ key_read_pos = key_write_pos
    /\ key_read_pos = KEY_BUFFER_SIZE - 1
    /\ unread = <<>>

(***************************************************************************)
(* Mouse driver (SpecMouse).                                               *)
(***************************************************************************)
\* the step is a mouse_tick that read a byte from the data port
ByteProcessed == mcall'.op = "tick" /\ mcall'.status % 2 = 1

\* the step left every static of the driver as it was
MouseUnchanged ==
    /\ mouse_x' = mouse_x
    /\ mouse_y' = mouse_y
    /\ mouse_buttons' = mouse_buttons
    /\ mouse_cycle' = mouse_cycle
    /\ mouse_byte' = mouse_byte
    /\ mouse_float' = mouse_float

\* the step left what mouse_get_position and mouse_get_buttons report
ReportUnchanged ==
    /\ mouse_x' = mouse_x
    /\ mouse_y' = mouse_y
    /\ mouse_buttons' = mouse_buttons

\* C34: the packet decoder of both mouse drivers keeps mouse_cycle in
\* {0, 1, 2}; in cycle 0 a byte with bit 3 clear is discarded with all driver
\* state unchanged; any other byte advances the cycle by one modulo 3; and the
\* reported position and buttons change only when the third byte of a packet
\* is processed.
C34_PacketDecoder ==
    /\ [](mouse_cycle \in {0, 1, 2})
    /\ [][(ByteProcessed /\ mouse_cycle = 0 /\ Bit(mcall'.data, 3) = 0) =>
            MouseUnchanged]_vars
    /\ [][(ByteProcessed /\ ~(mouse_cycle = 0 /\ Bit(mcall'.data, 3) = 0)) =>
            mouse_cycle' = (mouse_cycle + 1) % 3]_vars
    /\ [][~(ByteProcessed /\ mouse_cycle = 2) => ReportUnchanged]_vars

\* after a packet that pressed the three buttons, a byte with bit 3 clear
\* arrived in cycle 0 and was not stored
C34_Witness ==
    /\ mcall.op = "tick"
    /\ mcall.status = 1
    /\ mcall.data = 1
    /\ mouse_cycle = 0
    /\ mouse_buttons = 7
    /\ mouse_byte = [k \in 0 .. 2 |-> IF k = 0 THEN 127 ELSE 255]

\* the step is the integer driver processing the third byte of a packet
PacketCompleted ==
    /\ ByteProcessed
    /\ mouse_cycle = 2
    /\ mouse_float = NoFloats

\* C35: with the integer driver, after any sequence of bytes processed by
\* mouse_tick the position reported by mouse_get_position satisfies
\* 0 <= x <= 319 and 0 <= y <= 199 (the screen of the model is SCREEN_WIDTH
\* by SCREEN_HEIGHT), and a packet whose X (respectively Y) overflow flag is
\* set moves the pointer by 0 on that axis.
C35_PointerOnScreen ==
    /\ [](mouse_float = NoFloats =>
            /\ mouse_x \in 0 .. (SCREEN_WIDTH - 1)
            /\ mouse_y \in 0 .. (SCREEN_HEIGHT - 1))
    /\ [][(mcall'.op = "get_position" /\ mouse_float = NoFloats) =>
            /\ mcall'.x = mouse_x
            /\ mcall'.y = mouse_y
            /\ 0 <= mcall'.x /\ mcall'.x <= SCREEN_WIDTH - 1
            /\ 0 <= mcall'.y /\ mcall'.y <= SCREEN_HEIGHT - 1
         ]_vars
    /\ [][PacketCompleted =>
            /\ Bit(mouse_byte[0], 6) = 1 => mouse_x' = mouse_x
            /\ Bit(mouse_byte[0], 7) = 1 => mouse_y' = mouse_y
         ]_vars

\* a packet with the X overflow flag, an X displacement of +8 and a Y
\* displacement of -1 was just processed: the pointer is still in column 1
\* and has left the top row
C35_Witness ==
    /\ mouse_float = NoFloats
    /\ mcall.op = "tick"
    /\ mcall.data = 255
    /\ mouse_cycle = 0
    /\ mouse_byte = [k \in 0 .. 2 |-> IF k = 0 THEN 127 ELSE IF k = 1 THEN 8
                                      ELSE 255]
    /\ mouse_x = 1
    /\ mouse_y = 1

(***************************************************************************)
(* Text desktop: the command line (SpecDesk).                              *)
(***************************************************************************)
\* the step is desktop_tick receiving a character that is neither Enter nor
\* Backspace
CharProcessed ==
    /\ gpc = "desktop"
    /\ keyboard_has_key(key_read_pos, key_write_pos)
    /\ key_buffer[key_read_pos] \notin {10, 8}
    /\ gpc' = "keyboard"

\* the step is desktop_tick receiving Backspace
BackspaceProcessed ==
    /\ gpc = "desktop"
    /\ keyboard_has_key(key_read_pos, key_write_pos)
    /\ key_buffer[key_read_pos] = 8
    /\ gpc' = "keyboard"

\* C36: in the text desktop command_len stays within 0..63 (the model's
\* command_buffer has COMMAND_SIZE bytes, so within 0..COMMAND_SIZE-1) in
\* every reachable state, and no write to command_buffer, the terminating NUL
\* of handle_command included, lies beyond its end; a character typed when
\* the line holds COMMAND_SIZE-1 is discarded; Backspace on an empty line is
\* a no-op; Enter on an empty line does nothing; and Enter on a non-empty line
\* resets command_len to 0 whether or not the command is recognised.
C36_CommandLine ==
    /\ [](command_len \in 0 .. (COMMAND_SIZE - 1))
    /\ []("command_buffer" \notin stray)
    /\ [][(CharProcessed /\ command_len = COMMAND_SIZE - 1) =>
            /\ command_len' = command_len
            /\ command_buffer' = command_buffer
         ]_vars
    /\ [][(CharProcessed /\ command_len < COMMAND_SIZE - 1) =>
            /\ command_len' = command_len + 1
            /\ command_buffer' =
                   [command_buffer EXCEPT
                       ![command_len] = key_buffer[key_read_pos]]
         ]_vars
    /\ [][(BackspaceProcessed /\ command_len = 0) =>
            /\ command_len' = 0
            /\ command_buffer' = command_buffer
            /\ windows' = windows
            /\ active_window' = active_window
         ]_vars
    /\ [][(EnterProcessed /\ command_len = 0) =>
            /\ command_len' = 0
            /\ command_buffer' = command_buffer
            /\ windows' = windows
            /\ active_window' = active_window
         ]_vars
    /\ [][(EnterProcessed /\ command_len > 0) => command_len' = 0]_vars

\* a 'c' typed on a full line of 'c's has just been discarded
C36_Witness ==
    /\ dcall.op = "dropped"
    /\ command_len = COMMAND_SIZE - 1
    /\ CommandLine = [k \in 1 .. (COMMAND_SIZE - 1) |-> 99]
    /\ kcall.op = "get_key"
    /\ kcall.ret = 99

====
